---- MODULE Spec2Model ----
(***************************************************************************)
(* TLS-Chameleon: the session object TLSChameleon of                       *)
(* src/tls_chameleon/client.py: construction, header morphing, the block   *)
(* classifier, WAF adaptation, profile/proxy rotation, the retry loop of   *)
(* request() and the release of the transport.                             *)
(*                                                                         *)
(* The specifications share the variables:                                 *)
(*   Spec      - a session and the requests made on it, one action per     *)
(*               iteration of the retry loop;                              *)
(*   SpecBlock - _is_block applied to responses drawn from a bounded set;  *)
(*   SpecRot   - _rotate_proxy / _current_proxy called directly;           *)
(*   SpecMorph - _morph_headers on bounded header maps;                    *)
(*   SpecWaf   - _check_waf_and_adapt on bounded response headers;         *)
(*   SpecInit  - the constructor on bounded arguments;                     *)
(*   SpecScope - the session in a with-block, and close().                 *)
(***************************************************************************)
EXTENDS Integers, Sequences, FiniteSets, TLC

\* ------------------------------------------------------------------------
\* Bounds of the model
\* ------------------------------------------------------------------------
MaxRetriesBound == 2
MaxRequests == 1
MaxPoolLen == 2
MaxRotPoolLen == 3
MaxRotations == 5
MaxHeaders == 2
MaxWafHeaders == 2
MaxCloseCalls == 2
MaxPeerOps == 4
MaxPageAssets == 21
MaxBackoffRetries == 3
MaxExtLen == 4
MaxVariance == 3
MaxShuffleLen == 3
MaxCookieRequests == 2
MaxForms == 2

\* ------------------------------------------------------------------------
\* Text: a string is a sequence of one-character strings
\* ------------------------------------------------------------------------
AsciiUpper ==
    << "A", "B", "C", "D", "E", "F", "G", "H", "I", "J", "K", "L", "M",
       "N", "O", "P", "Q", "R", "S", "T", "U", "V", "W", "X", "Y", "Z" >>

AsciiLower ==
    << "a", "b", "c", "d", "e", "f", "g", "h", "i", "j", "k", "l", "m",
       "n", "o", "p", "q", "r", "s", "t", "u", "v", "w", "x", "y", "z" >>

UpperToLower ==
    [c \in { AsciiUpper[i] : i \in 1..26 } |->
        AsciiLower[CHOOSE i \in 1..26 : AsciiUpper[i] = c]]

LowerToUpper ==
    [c \in { AsciiLower[i] : i \in 1..26 } |->
        AsciiUpper[CHOOSE i \in 1..26 : AsciiLower[i] = c]]

\* str.lower()
Lower(text) ==
    [i \in 1..Len(text) |->
        IF text[i] \in DOMAIN UpperToLower THEN UpperToLower[text[i]] ELSE text[i]]

\* str.upper()
Upper(text) ==
    [i \in 1..Len(text) |->
        IF text[i] \in DOMAIN LowerToUpper THEN LowerToUpper[text[i]] ELSE text[i]]

\* str.capitalize(): first character upper-cased, the rest lower-cased
Capitalize(word) ==
    IF word = <<>> THEN <<>>
    ELSE Upper(SubSeq(word, 1, 1)) \o Lower(SubSeq(word, 2, Len(word)))

RECURSIVE SplitHyphen(_)
\* k.split("-")
SplitHyphen(k) ==
    IF \A i \in 1..Len(k) : k[i] # "-"
    THEN << k >>
    ELSE LET i == CHOOSE j \in 1..Len(k) :
                      k[j] = "-" /\ \A h \in 1..(j - 1) : k[h] # "-"
         IN  << SubSeq(k, 1, i - 1) >> \o SplitHyphen(SubSeq(k, i + 1, Len(k)))

RECURSIVE JoinHyphen(_)
\* "-".join(words)
JoinHyphen(words) ==
    IF Len(words) = 0 THEN <<>>
    ELSE IF Len(words) = 1 THEN words[1]
    ELSE words[1] \o <<"-">> \o JoinHyphen(Tail(words))

\* "-".join(word.capitalize() for word in k.split("-"))
TitleCase(k) ==
    LET words == SplitHyphen(k)
    IN  JoinHyphen([i \in 1..Len(words) |-> Capitalize(words[i])])

\* x in t  (substring test)
Contains(t, x) ==
    \E i \in 1..(Len(t) - Len(x) + 1) : SubSeq(t, i, i + Len(x) - 1) = x

BlockIndicators ==
    { <<"a", "c", "c", "e", "s", "s", " ", "d", "e", "n", "i", "e", "d">>,
      <<"e", "r", "r", "o", "r", " ", "1", "0", "2", "0">>,
      <<"a", "t", "t", "e", "n", "t", "i", "o", "n", " ", "r", "e", "q", "u", "i", "r", "e", "d">>,
      <<"b", "o", "t", " ", "d", "e", "t", "e", "c", "t", "e", "d">>,
      <<"c", "l", "o", "u", "d", "f", "l", "a", "r", "e">> }

BlockStatusCodes == {403, 429, 1020}

\* ------------------------------------------------------------------------
\* Responses
\*   present : FALSE for "no response" (None)
\*   status  : resp.status_code
\*   tk      : what reading resp.text gives: "str", "none" (None) or
\*             "raises" (the attribute access raises)
\*   text    : the body when tk = "str"
\*   waf     : the WAF signature its headers carry
\* ------------------------------------------------------------------------
NoResp == [present |-> FALSE, status |-> 0, tk |-> "none", text |-> <<>>, waf |-> "none"]

Resp(status, tk, text, waf) ==
    [present |-> TRUE, status |-> status, tk |-> tk, text |-> text, waf |-> waf]

CleanBodies ==
    { <<>>,
      <<"o", "k">>,
      <<"a", "c", "c", "e", "s", "s", "d", "e", "n", "i", "e", "d">>,
      <<"c", "l", "o", "u", "d", " ", "f", "l", "a", "r", "e">>,
      <<"e", "r", "r", "o", "r", " ", "1", "0", "2">> }

IndicatorBodies ==
    { <<"A", "c", "c", "e", "s", "s", " ", "D", "e", "n", "i", "e", "d">>,
      <<"E", "R", "R", "O", "R", " ", "1", "0", "2", "0">>,
      <<"A", "t", "t", "e", "n", "t", "i", "o", "n", " ", "R", "e", "q", "u", "i", "r", "e", "d", "!">>,
      <<"a", " ", "b", "o", "t", " ", "d", "e", "t", "e", "c", "t", "e", "d">>,
      <<"x", "C", "l", "o", "u", "d", "F", "l", "a", "r", "e">> }

Bodies == CleanBodies \cup IndicatorBodies

StatusCodes == {200, 204, 403, 404, 429, 503, 1020}

\* what the caller's block predicate does when called on a response
DetectorOutcomes == {"true", "false", "raise"}
\* block_detector= of a session: None ("none") or a predicate that always
\* answers True or always answers False
BlockDetectors == {"none", "true", "false"}

\* ------------------------------------------------------------------------
\* TLSChameleon._is_block
\*   det: "none" (no block_detector), or what block_detector(resp) does.
\*   Result: blocked, and exc = TRUE when an exception leaves _is_block.
\* ------------------------------------------------------------------------
BuiltinBlock_CaseSensitive(resp) ==
    LET t == IF resp.tk = "str" THEN resp.text ELSE <<>>
    IN  \/ resp.status \in BlockStatusCodes
        \/ \E x \in BlockIndicators : Contains(t, x)

BuiltinBlock(resp) ==
    LET text == IF resp.tk = "str" THEN resp.text ELSE <<>>
        t    == Lower(text)
    IN  \/ resp.status \in BlockStatusCodes
        \/ \E x \in BlockIndicators : Contains(t, x)

_is_block_PredicateEscapes(resp, det) ==
    IF ~resp.present
    THEN [blocked |-> TRUE, exc |-> FALSE]
    ELSE IF det \in {"true", "false"}
    THEN [blocked |-> (det = "true"), exc |-> FALSE]
    ELSE IF det = "raise"
    THEN [blocked |-> FALSE, exc |-> TRUE]
    ELSE [blocked |-> BuiltinBlock(resp), exc |-> FALSE]

_is_block(resp, det) ==
    IF ~resp.present
    THEN [blocked |-> TRUE, exc |-> FALSE]
    ELSE IF det \in {"true", "false"}
    THEN [blocked |-> (det = "true"), exc |-> FALSE]
    ELSE [blocked |-> BuiltinBlock(resp), exc |-> FALSE]

\* ------------------------------------------------------------------------
\* The profile catalog: the keys of PROFILES and of FINGERPRINT_GALLERY
\* ------------------------------------------------------------------------
PROFILES ==
    {"chrome_120", "chrome_124", "firefox_120", "mobile_safari_17", "ios_safari_17"}

DEFAULT_PROFILE == "chrome_120"

FINGERPRINT_GALLERY ==
    { "chrome_120_win11", "chrome_124_win11", "chrome_125_win11",
      "chrome_120_win10", "chrome_124_win10", "chrome_125_win10",
      "chrome_120_macos", "chrome_124_macos", "chrome_125_macos",
      "chrome_120_linux", "chrome_124_linux", "chrome_125_linux",
      "chrome_android_120", "chrome_android_124",
      "firefox_120_win11", "firefox_124_win11",
      "firefox_120_win10", "firefox_124_win10",
      "firefox_120_macos", "firefox_124_macos",
      "firefox_120_linux", "firefox_124_linux",
      "safari_ios16", "safari_ios17", "safari_macos13", "safari_macos14",
      "edge_120_win11", "edge_124_win11", "edge_120_win10", "edge_124_win10",
      "chrome_latest", "chrome_latest_win10", "chrome_latest_macos",
      "chrome_latest_linux", "firefox_latest", "firefox_latest_linux",
      "safari_latest", "edge_latest", "mobile_safari", "mobile_chrome",
      "chrome_120", "chrome_124", "firefox_120", "mobile_safari_17",
      "ios_safari_17" }

\* every name a lookup (_get_profile) resolves to its own entry
CatalogNames == PROFILES \cup FINGERPRINT_GALLERY

\* "chrome" in name, for the names of the catalog
ContainsChrome(name) ==
    name \in { "chrome_120", "chrome_124",
               "chrome_120_win11", "chrome_124_win11", "chrome_125_win11",
               "chrome_120_win10", "chrome_124_win10", "chrome_125_win10",
               "chrome_120_macos", "chrome_124_macos", "chrome_125_macos",
               "chrome_120_linux", "chrome_124_linux", "chrome_125_linux",
               "chrome_android_120", "chrome_android_124",
               "chrome_latest", "chrome_latest_win10", "chrome_latest_macos",
               "chrome_latest_linux", "mobile_chrome" }

_profile_exists_AcceptsAll(name) == TRUE

\* TLSChameleon._profile_exists
_profile_exists(name) == name \in PROFILES \/ name \in FINGERPRINT_GALLERY

\* ------------------------------------------------------------------------
\* The data of the catalog.  A profile is a record; keys names the optional
\* keys its dict has, and a key it does not have holds "" or << >>
\* ------------------------------------------------------------------------
CHROME_ciphers ==
    << "TLS_AES_128_GCM_SHA256",
       "TLS_AES_256_GCM_SHA384",
       "TLS_CHACHA20_POLY1305_SHA256",
       "ECDHE-ECDSA-AES128-GCM-SHA256",
       "ECDHE-RSA-AES128-GCM-SHA256",
       "ECDHE-ECDSA-AES256-GCM-SHA384",
       "ECDHE-RSA-AES256-GCM-SHA384",
       "ECDHE-ECDSA-CHACHA20-POLY1305",
       "ECDHE-RSA-CHACHA20-POLY1305",
       "ECDHE-RSA-AES128-SHA",
       "ECDHE-RSA-AES256-SHA",
       "AES128-GCM-SHA256",
       "AES256-GCM-SHA384",
       "AES128-SHA",
       "AES256-SHA" >>

CHROME_extensions ==
    << 0, 23, 65281, 10, 11, 35, 16, 5, 13, 18, 51, 45, 43, 27, 17513, 21 >>

CHROME_randomization ==
    [ ua_minor_variance |-> TRUE, extension_variance |-> 0, cipher_shuffle |-> FALSE ]

FIREFOX_ciphers ==
    << "TLS_AES_128_GCM_SHA256",
       "TLS_CHACHA20_POLY1305_SHA256",
       "TLS_AES_256_GCM_SHA384",
       "ECDHE-ECDSA-AES128-GCM-SHA256",
       "ECDHE-RSA-AES128-GCM-SHA256",
       "ECDHE-ECDSA-CHACHA20-POLY1305",
       "ECDHE-RSA-CHACHA20-POLY1305",
       "ECDHE-ECDSA-AES256-GCM-SHA384",
       "ECDHE-RSA-AES256-GCM-SHA384",
       "ECDHE-ECDSA-AES256-SHA",
       "ECDHE-ECDSA-AES128-SHA",
       "ECDHE-RSA-AES128-SHA",
       "ECDHE-RSA-AES256-SHA",
       "AES128-GCM-SHA256",
       "AES256-GCM-SHA384",
       "AES128-SHA",
       "AES256-SHA" >>

FIREFOX_extensions ==
    << 0, 23, 65281, 10, 11, 35, 16, 5, 34, 51, 43, 13, 45, 28, 21 >>

FIREFOX_randomization ==
    [ ua_minor_variance |-> TRUE, extension_variance |-> 2, cipher_shuffle |-> FALSE ]

SAFARI_ciphers ==
    << "TLS_AES_128_GCM_SHA256",
       "TLS_AES_256_GCM_SHA384",
       "TLS_CHACHA20_POLY1305_SHA256",
       "ECDHE-ECDSA-AES256-GCM-SHA384",
       "ECDHE-ECDSA-AES128-GCM-SHA256",
       "ECDHE-ECDSA-CHACHA20-POLY1305",
       "ECDHE-RSA-AES256-GCM-SHA384",
       "ECDHE-RSA-AES128-GCM-SHA256",
       "ECDHE-RSA-CHACHA20-POLY1305" >>

SAFARI_extensions ==
    << 0, 23, 65281, 10, 11, 16, 5, 13, 18, 51, 45, 43, 27, 21 >>

SAFARI_randomization ==
    [ ua_minor_variance |-> FALSE, extension_variance |-> 0, cipher_shuffle |-> FALSE ]

GALLERY_DATA ==
    [
      chrome_120_win11 |->
        [ user_agent |-> "Mozilla/5.0 (Windows NT 10.0; Win64; x64) AppleWebKit/537.36 (KHTML, like Gecko) Chrome/120.0.0.0 Safari/537.36",
          sec_ch_ua |-> "\"Not_A Brand\";v=\"8\", \"Chromium\";v=\"120\", \"Google Chrome\";v=\"120\"", sec_ch_ua_platform |-> "\"Windows\"", sec_ch_ua_mobile |-> "",
          header_case |-> "lower", ciphers |-> CHROME_ciphers, tls12_ciphers |-> << >>,
          extensions |-> CHROME_extensions, randomization |-> CHROME_randomization,
          keys |-> {"user_agent", "header_case", "ciphers", "extensions", "randomization", "sec_ch_ua", "sec_ch_ua_platform"} ],
      chrome_124_win11 |->
        [ user_agent |-> "Mozilla/5.0 (Windows NT 10.0; Win64; x64) AppleWebKit/537.36 (KHTML, like Gecko) Chrome/124.0.0.0 Safari/537.36",
          sec_ch_ua |-> "\"Chromium\";v=\"124\", \"Google Chrome\";v=\"124\", \"Not-A.Brand\";v=\"99\"", sec_ch_ua_platform |-> "\"Windows\"", sec_ch_ua_mobile |-> "",
          header_case |-> "lower", ciphers |-> CHROME_ciphers, tls12_ciphers |-> << >>,
          extensions |-> CHROME_extensions, randomization |-> CHROME_randomization,
          keys |-> {"user_agent", "header_case", "ciphers", "extensions", "randomization", "sec_ch_ua", "sec_ch_ua_platform"} ],
      chrome_125_win11 |->
        [ user_agent |-> "Mozilla/5.0 (Windows NT 10.0; Win64; x64) AppleWebKit/537.36 (KHTML, like Gecko) Chrome/125.0.0.0 Safari/537.36",
          sec_ch_ua |-> "\"Chromium\";v=\"125\", \"Google Chrome\";v=\"125\", \"Not-A.Brand\";v=\"24\"", sec_ch_ua_platform |-> "\"Windows\"", sec_ch_ua_mobile |-> "",
          header_case |-> "lower", ciphers |-> CHROME_ciphers, tls12_ciphers |-> << >>,
          extensions |-> CHROME_extensions, randomization |-> CHROME_randomization,
          keys |-> {"user_agent", "header_case", "ciphers", "extensions", "randomization", "sec_ch_ua", "sec_ch_ua_platform"} ],
      chrome_120_win10 |->
        [ user_agent |-> "Mozilla/5.0 (Windows NT 10.0; Win64; x64) AppleWebKit/537.36 (KHTML, like Gecko) Chrome/120.0.0.0 Safari/537.36",
          sec_ch_ua |-> "\"Not_A Brand\";v=\"8\", \"Chromium\";v=\"120\", \"Google Chrome\";v=\"120\"", sec_ch_ua_platform |-> "\"Windows\"", sec_ch_ua_mobile |-> "",
          header_case |-> "lower", ciphers |-> CHROME_ciphers, tls12_ciphers |-> << >>,
          extensions |-> CHROME_extensions, randomization |-> CHROME_randomization,
          keys |-> {"user_agent", "header_case", "ciphers", "extensions", "randomization", "sec_ch_ua", "sec_ch_ua_platform"} ],
      chrome_124_win10 |->
        [ user_agent |-> "Mozilla/5.0 (Windows NT 10.0; Win64; x64) AppleWebKit/537.36 (KHTML, like Gecko) Chrome/124.0.0.0 Safari/537.36",
          sec_ch_ua |-> "\"Chromium\";v=\"124\", \"Google Chrome\";v=\"124\", \"Not-A.Brand\";v=\"99\"", sec_ch_ua_platform |-> "\"Windows\"", sec_ch_ua_mobile |-> "",
          header_case |-> "lower", ciphers |-> CHROME_ciphers, tls12_ciphers |-> << >>,
          extensions |-> CHROME_extensions, randomization |-> CHROME_randomization,
          keys |-> {"user_agent", "header_case", "ciphers", "extensions", "randomization", "sec_ch_ua", "sec_ch_ua_platform"} ],
      chrome_125_win10 |->
        [ user_agent |-> "Mozilla/5.0 (Windows NT 10.0; Win64; x64) AppleWebKit/537.36 (KHTML, like Gecko) Chrome/125.0.0.0 Safari/537.36",
          sec_ch_ua |-> "\"Chromium\";v=\"125\", \"Google Chrome\";v=\"125\", \"Not-A.Brand\";v=\"24\"", sec_ch_ua_platform |-> "\"Windows\"", sec_ch_ua_mobile |-> "",
          header_case |-> "lower", ciphers |-> CHROME_ciphers, tls12_ciphers |-> << >>,
          extensions |-> CHROME_extensions, randomization |-> CHROME_randomization,
          keys |-> {"user_agent", "header_case", "ciphers", "extensions", "randomization", "sec_ch_ua", "sec_ch_ua_platform"} ],
      chrome_120_macos |->
        [ user_agent |-> "Mozilla/5.0 (Macintosh; Intel Mac OS X 10_15_7) AppleWebKit/537.36 (KHTML, like Gecko) Chrome/120.0.0.0 Safari/537.36",
          sec_ch_ua |-> "\"Not_A Brand\";v=\"8\", \"Chromium\";v=\"120\", \"Google Chrome\";v=\"120\"", sec_ch_ua_platform |-> "\"macOS\"", sec_ch_ua_mobile |-> "",
          header_case |-> "lower", ciphers |-> CHROME_ciphers, tls12_ciphers |-> << >>,
          extensions |-> CHROME_extensions, randomization |-> CHROME_randomization,
          keys |-> {"user_agent", "header_case", "ciphers", "extensions", "randomization", "sec_ch_ua", "sec_ch_ua_platform"} ],
      chrome_124_macos |->
        [ user_agent |-> "Mozilla/5.0 (Macintosh; Intel Mac OS X 10_15_7) AppleWebKit/537.36 (KHTML, like Gecko) Chrome/124.0.0.0 Safari/537.36",
          sec_ch_ua |-> "\"Chromium\";v=\"124\", \"Google Chrome\";v=\"124\", \"Not-A.Brand\";v=\"99\"", sec_ch_ua_platform |-> "\"macOS\"", sec_ch_ua_mobile |-> "",
          header_case |-> "lower", ciphers |-> CHROME_ciphers, tls12_ciphers |-> << >>,
          extensions |-> CHROME_extensions, randomization |-> CHROME_randomization,
          keys |-> {"user_agent", "header_case", "ciphers", "extensions", "randomization", "sec_ch_ua", "sec_ch_ua_platform"} ],
      chrome_125_macos |->
        [ user_agent |-> "Mozilla/5.0 (Macintosh; Intel Mac OS X 10_15_7) AppleWebKit/537.36 (KHTML, like Gecko) Chrome/125.0.0.0 Safari/537.36",
          sec_ch_ua |-> "\"Chromium\";v=\"125\", \"Google Chrome\";v=\"125\", \"Not-A.Brand\";v=\"24\"", sec_ch_ua_platform |-> "\"macOS\"", sec_ch_ua_mobile |-> "",
          header_case |-> "lower", ciphers |-> CHROME_ciphers, tls12_ciphers |-> << >>,
          extensions |-> CHROME_extensions, randomization |-> CHROME_randomization,
          keys |-> {"user_agent", "header_case", "ciphers", "extensions", "randomization", "sec_ch_ua", "sec_ch_ua_platform"} ],
      chrome_120_linux |->
        [ user_agent |-> "Mozilla/5.0 (X11; Linux x86_64) AppleWebKit/537.36 (KHTML, like Gecko) Chrome/120.0.0.0 Safari/537.36",
          sec_ch_ua |-> "\"Not_A Brand\";v=\"8\", \"Chromium\";v=\"120\", \"Google Chrome\";v=\"120\"", sec_ch_ua_platform |-> "\"Linux\"", sec_ch_ua_mobile |-> "",
          header_case |-> "lower", ciphers |-> CHROME_ciphers, tls12_ciphers |-> << >>,
          extensions |-> CHROME_extensions, randomization |-> CHROME_randomization,
          keys |-> {"user_agent", "header_case", "ciphers", "extensions", "randomization", "sec_ch_ua", "sec_ch_ua_platform"} ],
      chrome_124_linux |->
        [ user_agent |-> "Mozilla/5.0 (X11; Linux x86_64) AppleWebKit/537.36 (KHTML, like Gecko) Chrome/124.0.0.0 Safari/537.36",
          sec_ch_ua |-> "\"Chromium\";v=\"124\", \"Google Chrome\";v=\"124\", \"Not-A.Brand\";v=\"99\"", sec_ch_ua_platform |-> "\"Linux\"", sec_ch_ua_mobile |-> "",
          header_case |-> "lower", ciphers |-> CHROME_ciphers, tls12_ciphers |-> << >>,
          extensions |-> CHROME_extensions, randomization |-> CHROME_randomization,
          keys |-> {"user_agent", "header_case", "ciphers", "extensions", "randomization", "sec_ch_ua", "sec_ch_ua_platform"} ],
      chrome_125_linux |->
        [ user_agent |-> "Mozilla/5.0 (X11; Linux x86_64) AppleWebKit/537.36 (KHTML, like Gecko) Chrome/125.0.0.0 Safari/537.36",
          sec_ch_ua |-> "\"Chromium\";v=\"125\", \"Google Chrome\";v=\"125\", \"Not-A.Brand\";v=\"24\"", sec_ch_ua_platform |-> "\"Linux\"", sec_ch_ua_mobile |-> "",
          header_case |-> "lower", ciphers |-> CHROME_ciphers, tls12_ciphers |-> << >>,
          extensions |-> CHROME_extensions, randomization |-> CHROME_randomization,
          keys |-> {"user_agent", "header_case", "ciphers", "extensions", "randomization", "sec_ch_ua", "sec_ch_ua_platform"} ],
      chrome_android_120 |->
        [ user_agent |-> "Mozilla/5.0 (Linux; Android 14; SM-S918B) AppleWebKit/537.36 (KHTML, like Gecko) Chrome/120.0.6099.144 Mobile Safari/537.36",
          sec_ch_ua |-> "\"Not_A Brand\";v=\"8\", \"Chromium\";v=\"120\", \"Google Chrome\";v=\"120\"", sec_ch_ua_platform |-> "\"Android\"", sec_ch_ua_mobile |-> "?1",
          header_case |-> "lower", ciphers |-> CHROME_ciphers, tls12_ciphers |-> << >>,
          extensions |-> CHROME_extensions, randomization |-> CHROME_randomization,
          keys |-> {"user_agent", "header_case", "ciphers", "extensions", "randomization", "sec_ch_ua", "sec_ch_ua_platform", "sec_ch_ua_mobile"} ],
      chrome_android_124 |->
        [ user_agent |-> "Mozilla/5.0 (Linux; Android 14; SM-S918B) AppleWebKit/537.36 (KHTML, like Gecko) Chrome/124.0.6367.82 Mobile Safari/537.36",
          sec_ch_ua |-> "\"Chromium\";v=\"124\", \"Google Chrome\";v=\"124\", \"Not-A.Brand\";v=\"99\"", sec_ch_ua_platform |-> "\"Android\"", sec_ch_ua_mobile |-> "?1",
          header_case |-> "lower", ciphers |-> CHROME_ciphers, tls12_ciphers |-> << >>,
          extensions |-> CHROME_extensions, randomization |-> CHROME_randomization,
          keys |-> {"user_agent", "header_case", "ciphers", "extensions", "randomization", "sec_ch_ua", "sec_ch_ua_platform", "sec_ch_ua_mobile"} ],
      firefox_120_win11 |->
        [ user_agent |-> "Mozilla/5.0 (Windows NT 10.0; Win64; x64; rv:120.0) Gecko/20100101 Firefox/120.0",
          sec_ch_ua |-> "", sec_ch_ua_platform |-> "", sec_ch_ua_mobile |-> "",
          header_case |-> "title", ciphers |-> FIREFOX_ciphers, tls12_ciphers |-> << >>,
          extensions |-> FIREFOX_extensions, randomization |-> FIREFOX_randomization,
          keys |-> {"user_agent", "header_case", "ciphers", "extensions", "randomization"} ],
      firefox_124_win11 |->
        [ user_agent |-> "Mozilla/5.0 (Windows NT 10.0; Win64; x64; rv:124.0) Gecko/20100101 Firefox/124.0",
          sec_ch_ua |-> "", sec_ch_ua_platform |-> "", sec_ch_ua_mobile |-> "",
          header_case |-> "title", ciphers |-> FIREFOX_ciphers, tls12_ciphers |-> << >>,
          extensions |-> FIREFOX_extensions, randomization |-> FIREFOX_randomization,
          keys |-> {"user_agent", "header_case", "ciphers", "extensions", "randomization"} ],
      firefox_120_win10 |->
        [ user_agent |-> "Mozilla/5.0 (Windows NT 10.0; Win64; x64; rv:120.0) Gecko/20100101 Firefox/120.0",
          sec_ch_ua |-> "", sec_ch_ua_platform |-> "", sec_ch_ua_mobile |-> "",
          header_case |-> "title", ciphers |-> FIREFOX_ciphers, tls12_ciphers |-> << >>,
          extensions |-> FIREFOX_extensions, randomization |-> FIREFOX_randomization,
          keys |-> {"user_agent", "header_case", "ciphers", "extensions", "randomization"} ],
      firefox_124_win10 |->
        [ user_agent |-> "Mozilla/5.0 (Windows NT 10.0; Win64; x64; rv:124.0) Gecko/20100101 Firefox/124.0",
          sec_ch_ua |-> "", sec_ch_ua_platform |-> "", sec_ch_ua_mobile |-> "",
          header_case |-> "title", ciphers |-> FIREFOX_ciphers, tls12_ciphers |-> << >>,
          extensions |-> FIREFOX_extensions, randomization |-> FIREFOX_randomization,
          keys |-> {"user_agent", "header_case", "ciphers", "extensions", "randomization"} ],
      firefox_120_macos |->
        [ user_agent |-> "Mozilla/5.0 (Macintosh; Intel Mac OS X 10.15; rv:120.0) Gecko/20100101 Firefox/120.0",
          sec_ch_ua |-> "", sec_ch_ua_platform |-> "", sec_ch_ua_mobile |-> "",
          header_case |-> "title", ciphers |-> FIREFOX_ciphers, tls12_ciphers |-> << >>,
          extensions |-> FIREFOX_extensions, randomization |-> FIREFOX_randomization,
          keys |-> {"user_agent", "header_case", "ciphers", "extensions", "randomization"} ],
      firefox_124_macos |->
        [ user_agent |-> "Mozilla/5.0 (Macintosh; Intel Mac OS X 10.15; rv:124.0) Gecko/20100101 Firefox/124.0",
          sec_ch_ua |-> "", sec_ch_ua_platform |-> "", sec_ch_ua_mobile |-> "",
          header_case |-> "title", ciphers |-> FIREFOX_ciphers, tls12_ciphers |-> << >>,
          extensions |-> FIREFOX_extensions, randomization |-> FIREFOX_randomization,
          keys |-> {"user_agent", "header_case", "ciphers", "extensions", "randomization"} ],
      firefox_120_linux |->
        [ user_agent |-> "Mozilla/5.0 (X11; Linux x86_64; rv:120.0) Gecko/20100101 Firefox/120.0",
          sec_ch_ua |-> "", sec_ch_ua_platform |-> "", sec_ch_ua_mobile |-> "",
          header_case |-> "title", ciphers |-> FIREFOX_ciphers, tls12_ciphers |-> << >>,
          extensions |-> FIREFOX_extensions, randomization |-> FIREFOX_randomization,
          keys |-> {"user_agent", "header_case", "ciphers", "extensions", "randomization"} ],
      firefox_124_linux |->
        [ user_agent |-> "Mozilla/5.0 (X11; Linux x86_64; rv:124.0) Gecko/20100101 Firefox/124.0",
          sec_ch_ua |-> "", sec_ch_ua_platform |-> "", sec_ch_ua_mobile |-> "",
          header_case |-> "title", ciphers |-> FIREFOX_ciphers, tls12_ciphers |-> << >>,
          extensions |-> FIREFOX_extensions, randomization |-> FIREFOX_randomization,
          keys |-> {"user_agent", "header_case", "ciphers", "extensions", "randomization"} ],
      safari_ios16 |->
        [ user_agent |-> "Mozilla/5.0 (iPhone; CPU iPhone OS 16_6 like Mac OS X) AppleWebKit/605.1.15 (KHTML, like Gecko) Version/16.6 Mobile/15E148 Safari/604.1",
          sec_ch_ua |-> "", sec_ch_ua_platform |-> "", sec_ch_ua_mobile |-> "",
          header_case |-> "title", ciphers |-> SAFARI_ciphers, tls12_ciphers |-> << >>,
          extensions |-> SAFARI_extensions, randomization |-> SAFARI_randomization,
          keys |-> {"user_agent", "header_case", "ciphers", "extensions", "randomization"} ],
      safari_ios17 |->
        [ user_agent |-> "Mozilla/5.0 (iPhone; CPU iPhone OS 17_0 like Mac OS X) AppleWebKit/605.1.15 (KHTML, like Gecko) Version/17.0 Mobile/15E148 Safari/604.1",
          sec_ch_ua |-> "", sec_ch_ua_platform |-> "", sec_ch_ua_mobile |-> "",
          header_case |-> "title", ciphers |-> SAFARI_ciphers, tls12_ciphers |-> << >>,
          extensions |-> SAFARI_extensions, randomization |-> SAFARI_randomization,
          keys |-> {"user_agent", "header_case", "ciphers", "extensions", "randomization"} ],
      safari_macos13 |->
        [ user_agent |-> "Mozilla/5.0 (Macintosh; Intel Mac OS X 13_6) AppleWebKit/605.1.15 (KHTML, like Gecko) Version/16.6 Safari/605.1.15",
          sec_ch_ua |-> "", sec_ch_ua_platform |-> "", sec_ch_ua_mobile |-> "",
          header_case |-> "title", ciphers |-> SAFARI_ciphers, tls12_ciphers |-> << >>,
          extensions |-> SAFARI_extensions, randomization |-> SAFARI_randomization,
          keys |-> {"user_agent", "header_case", "ciphers", "extensions", "randomization"} ],
      safari_macos14 |->
        [ user_agent |-> "Mozilla/5.0 (Macintosh; Intel Mac OS X 14_0) AppleWebKit/605.1.15 (KHTML, like Gecko) Version/17.0 Safari/605.1.15",
          sec_ch_ua |-> "", sec_ch_ua_platform |-> "", sec_ch_ua_mobile |-> "",
          header_case |-> "title", ciphers |-> SAFARI_ciphers, tls12_ciphers |-> << >>,
          extensions |-> SAFARI_extensions, randomization |-> SAFARI_randomization,
          keys |-> {"user_agent", "header_case", "ciphers", "extensions", "randomization"} ],
      edge_120_win11 |->
        [ user_agent |-> "Mozilla/5.0 (Windows NT 10.0; Win64; x64) AppleWebKit/537.36 (KHTML, like Gecko) Chrome/120.0.0.0 Safari/537.36 Edg/120.0.0.0",
          sec_ch_ua |-> "\"Not_A Brand\";v=\"8\", \"Chromium\";v=\"120\", \"Microsoft Edge\";v=\"120\"", sec_ch_ua_platform |-> "\"Windows\"", sec_ch_ua_mobile |-> "",
          header_case |-> "lower", ciphers |-> CHROME_ciphers, tls12_ciphers |-> << >>,
          extensions |-> CHROME_extensions, randomization |-> CHROME_randomization,
          keys |-> {"user_agent", "header_case", "ciphers", "extensions", "randomization", "sec_ch_ua", "sec_ch_ua_platform"} ],
      edge_124_win11 |->
        [ user_agent |-> "Mozilla/5.0 (Windows NT 10.0; Win64; x64) AppleWebKit/537.36 (KHTML, like Gecko) Chrome/124.0.0.0 Safari/537.36 Edg/124.0.0.0",
          sec_ch_ua |-> "\"Chromium\";v=\"124\", \"Microsoft Edge\";v=\"124\", \"Not-A.Brand\";v=\"99\"", sec_ch_ua_platform |-> "\"Windows\"", sec_ch_ua_mobile |-> "",
          header_case |-> "lower", ciphers |-> CHROME_ciphers, tls12_ciphers |-> << >>,
          extensions |-> CHROME_extensions, randomization |-> CHROME_randomization,
          keys |-> {"user_agent", "header_case", "ciphers", "extensions", "randomization", "sec_ch_ua", "sec_ch_ua_platform"} ],
      edge_120_win10 |->
        [ user_agent |-> "Mozilla/5.0 (Windows NT 10.0; Win64; x64) AppleWebKit/537.36 (KHTML, like Gecko) Chrome/120.0.0.0 Safari/537.36 Edg/120.0.0.0",
          sec_ch_ua |-> "\"Not_A Brand\";v=\"8\", \"Chromium\";v=\"120\", \"Microsoft Edge\";v=\"120\"", sec_ch_ua_platform |-> "\"Windows\"", sec_ch_ua_mobile |-> "",
          header_case |-> "lower", ciphers |-> CHROME_ciphers, tls12_ciphers |-> << >>,
          extensions |-> CHROME_extensions, randomization |-> CHROME_randomization,
          keys |-> {"user_agent", "header_case", "ciphers", "extensions", "randomization", "sec_ch_ua", "sec_ch_ua_platform"} ],
      edge_124_win10 |->
        [ user_agent |-> "Mozilla/5.0 (Windows NT 10.0; Win64; x64) AppleWebKit/537.36 (KHTML, like Gecko) Chrome/124.0.0.0 Safari/537.36 Edg/124.0.0.0",
          sec_ch_ua |-> "\"Chromium\";v=\"124\", \"Microsoft Edge\";v=\"124\", \"Not-A.Brand\";v=\"99\"", sec_ch_ua_platform |-> "\"Windows\"", sec_ch_ua_mobile |-> "",
          header_case |-> "lower", ciphers |-> CHROME_ciphers, tls12_ciphers |-> << >>,
          extensions |-> CHROME_extensions, randomization |-> CHROME_randomization,
          keys |-> {"user_agent", "header_case", "ciphers", "extensions", "randomization", "sec_ch_ua", "sec_ch_ua_platform"} ],
      chrome_latest |->
        [ user_agent |-> "Mozilla/5.0 (Windows NT 10.0; Win64; x64) AppleWebKit/537.36 (KHTML, like Gecko) Chrome/125.0.0.0 Safari/537.36",
          sec_ch_ua |-> "\"Chromium\";v=\"125\", \"Google Chrome\";v=\"125\", \"Not-A.Brand\";v=\"24\"", sec_ch_ua_platform |-> "\"Windows\"", sec_ch_ua_mobile |-> "",
          header_case |-> "lower", ciphers |-> CHROME_ciphers, tls12_ciphers |-> << >>,
          extensions |-> CHROME_extensions, randomization |-> CHROME_randomization,
          keys |-> {"user_agent", "header_case", "ciphers", "extensions", "randomization", "sec_ch_ua", "sec_ch_ua_platform"} ],
      chrome_latest_win10 |->
        [ user_agent |-> "Mozilla/5.0 (Windows NT 10.0; Win64; x64) AppleWebKit/537.36 (KHTML, like Gecko) Chrome/125.0.0.0 Safari/537.36",
          sec_ch_ua |-> "\"Chromium\";v=\"125\", \"Google Chrome\";v=\"125\", \"Not-A.Brand\";v=\"24\"", sec_ch_ua_platform |-> "\"Windows\"", sec_ch_ua_mobile |-> "",
          header_case |-> "lower", ciphers |-> CHROME_ciphers, tls12_ciphers |-> << >>,
          extensions |-> CHROME_extensions, randomization |-> CHROME_randomization,
          keys |-> {"user_agent", "header_case", "ciphers", "extensions", "randomization", "sec_ch_ua", "sec_ch_ua_platform"} ],
      chrome_latest_macos |->
        [ user_agent |-> "Mozilla/5.0 (Macintosh; Intel Mac OS X 10_15_7) AppleWebKit/537.36 (KHTML, like Gecko) Chrome/125.0.0.0 Safari/537.36",
          sec_ch_ua |-> "\"Chromium\";v=\"125\", \"Google Chrome\";v=\"125\", \"Not-A.Brand\";v=\"24\"", sec_ch_ua_platform |-> "\"macOS\"", sec_ch_ua_mobile |-> "",
          header_case |-> "lower", ciphers |-> CHROME_ciphers, tls12_ciphers |-> << >>,
          extensions |-> CHROME_extensions, randomization |-> CHROME_randomization,
          keys |-> {"user_agent", "header_case", "ciphers", "extensions", "randomization", "sec_ch_ua", "sec_ch_ua_platform"} ],
      chrome_latest_linux |->
        [ user_agent |-> "Mozilla/5.0 (X11; Linux x86_64) AppleWebKit/537.36 (KHTML, like Gecko) Chrome/125.0.0.0 Safari/537.36",
          sec_ch_ua |-> "\"Chromium\";v=\"125\", \"Google Chrome\";v=\"125\", \"Not-A.Brand\";v=\"24\"", sec_ch_ua_platform |-> "\"Linux\"", sec_ch_ua_mobile |-> "",
          header_case |-> "lower", ciphers |-> CHROME_ciphers, tls12_ciphers |-> << >>,
          extensions |-> CHROME_extensions, randomization |-> CHROME_randomization,
          keys |-> {"user_agent", "header_case", "ciphers", "extensions", "randomization", "sec_ch_ua", "sec_ch_ua_platform"} ],
      firefox_latest |->
        [ user_agent |-> "Mozilla/5.0 (Windows NT 10.0; Win64; x64; rv:124.0) Gecko/20100101 Firefox/124.0",
          sec_ch_ua |-> "", sec_ch_ua_platform |-> "", sec_ch_ua_mobile |-> "",
          header_case |-> "title", ciphers |-> FIREFOX_ciphers, tls12_ciphers |-> << >>,
          extensions |-> FIREFOX_extensions, randomization |-> FIREFOX_randomization,
          keys |-> {"user_agent", "header_case", "ciphers", "extensions", "randomization"} ],
      firefox_latest_linux |->
        [ user_agent |-> "Mozilla/5.0 (X11; Linux x86_64; rv:124.0) Gecko/20100101 Firefox/124.0",
          sec_ch_ua |-> "", sec_ch_ua_platform |-> "", sec_ch_ua_mobile |-> "",
          header_case |-> "title", ciphers |-> FIREFOX_ciphers, tls12_ciphers |-> << >>,
          extensions |-> FIREFOX_extensions, randomization |-> FIREFOX_randomization,
          keys |-> {"user_agent", "header_case", "ciphers", "extensions", "randomization"} ],
      safari_latest |->
        [ user_agent |-> "Mozilla/5.0 (iPhone; CPU iPhone OS 17_0 like Mac OS X) AppleWebKit/605.1.15 (KHTML, like Gecko) Version/17.0 Mobile/15E148 Safari/604.1",
          sec_ch_ua |-> "", sec_ch_ua_platform |-> "", sec_ch_ua_mobile |-> "",
          header_case |-> "title", ciphers |-> SAFARI_ciphers, tls12_ciphers |-> << >>,
          extensions |-> SAFARI_extensions, randomization |-> SAFARI_randomization,
          keys |-> {"user_agent", "header_case", "ciphers", "extensions", "randomization"} ],
      edge_latest |->
        [ user_agent |-> "Mozilla/5.0 (Windows NT 10.0; Win64; x64) AppleWebKit/537.36 (KHTML, like Gecko) Chrome/124.0.0.0 Safari/537.36 Edg/124.0.0.0",
          sec_ch_ua |-> "\"Chromium\";v=\"124\", \"Microsoft Edge\";v=\"124\", \"Not-A.Brand\";v=\"99\"", sec_ch_ua_platform |-> "\"Windows\"", sec_ch_ua_mobile |-> "",
          header_case |-> "lower", ciphers |-> CHROME_ciphers, tls12_ciphers |-> << >>,
          extensions |-> CHROME_extensions, randomization |-> CHROME_randomization,
          keys |-> {"user_agent", "header_case", "ciphers", "extensions", "randomization", "sec_ch_ua", "sec_ch_ua_platform"} ],
      mobile_safari |->
        [ user_agent |-> "Mozilla/5.0 (iPhone; CPU iPhone OS 17_0 like Mac OS X) AppleWebKit/605.1.15 (KHTML, like Gecko) Version/17.0 Mobile/15E148 Safari/604.1",
          sec_ch_ua |-> "", sec_ch_ua_platform |-> "", sec_ch_ua_mobile |-> "",
          header_case |-> "title", ciphers |-> SAFARI_ciphers, tls12_ciphers |-> << >>,
          extensions |-> SAFARI_extensions, randomization |-> SAFARI_randomization,
          keys |-> {"user_agent", "header_case", "ciphers", "extensions", "randomization"} ],
      mobile_chrome |->
        [ user_agent |-> "Mozilla/5.0 (Linux; Android 14; SM-S918B) AppleWebKit/537.36 (KHTML, like Gecko) Chrome/124.0.6367.82 Mobile Safari/537.36",
          sec_ch_ua |-> "\"Chromium\";v=\"124\", \"Google Chrome\";v=\"124\", \"Not-A.Brand\";v=\"99\"", sec_ch_ua_platform |-> "\"Android\"", sec_ch_ua_mobile |-> "?1",
          header_case |-> "lower", ciphers |-> CHROME_ciphers, tls12_ciphers |-> << >>,
          extensions |-> CHROME_extensions, randomization |-> CHROME_randomization,
          keys |-> {"user_agent", "header_case", "ciphers", "extensions", "randomization", "sec_ch_ua", "sec_ch_ua_platform", "sec_ch_ua_mobile"} ],
      chrome_120 |->
        [ user_agent |-> "Mozilla/5.0 (Windows NT 10.0; Win64; x64) AppleWebKit/537.36 (KHTML, like Gecko) Chrome/120.0.0.0 Safari/537.36",
          sec_ch_ua |-> "\"Not_A Brand\";v=\"8\", \"Chromium\";v=\"120\", \"Google Chrome\";v=\"120\"", sec_ch_ua_platform |-> "\"Windows\"", sec_ch_ua_mobile |-> "",
          header_case |-> "lower", ciphers |-> CHROME_ciphers, tls12_ciphers |-> << >>,
          extensions |-> CHROME_extensions, randomization |-> CHROME_randomization,
          keys |-> {"user_agent", "header_case", "ciphers", "extensions", "randomization", "sec_ch_ua", "sec_ch_ua_platform"} ],
      chrome_124 |->
        [ user_agent |-> "Mozilla/5.0 (Windows NT 10.0; Win64; x64) AppleWebKit/537.36 (KHTML, like Gecko) Chrome/124.0.0.0 Safari/537.36",
          sec_ch_ua |-> "\"Chromium\";v=\"124\", \"Google Chrome\";v=\"124\", \"Not-A.Brand\";v=\"99\"", sec_ch_ua_platform |-> "\"Windows\"", sec_ch_ua_mobile |-> "",
          header_case |-> "lower", ciphers |-> CHROME_ciphers, tls12_ciphers |-> << >>,
          extensions |-> CHROME_extensions, randomization |-> CHROME_randomization,
          keys |-> {"user_agent", "header_case", "ciphers", "extensions", "randomization", "sec_ch_ua", "sec_ch_ua_platform"} ],
      firefox_120 |->
        [ user_agent |-> "Mozilla/5.0 (Windows NT 10.0; Win64; x64; rv:120.0) Gecko/20100101 Firefox/120.0",
          sec_ch_ua |-> "", sec_ch_ua_platform |-> "", sec_ch_ua_mobile |-> "",
          header_case |-> "title", ciphers |-> FIREFOX_ciphers, tls12_ciphers |-> << >>,
          extensions |-> FIREFOX_extensions, randomization |-> FIREFOX_randomization,
          keys |-> {"user_agent", "header_case", "ciphers", "extensions", "randomization"} ],
      mobile_safari_17 |->
        [ user_agent |-> "Mozilla/5.0 (iPhone; CPU iPhone OS 17_0 like Mac OS X) AppleWebKit/605.1.15 (KHTML, like Gecko) Version/17.0 Mobile/15E148 Safari/604.1",
          sec_ch_ua |-> "", sec_ch_ua_platform |-> "", sec_ch_ua_mobile |-> "",
          header_case |-> "title", ciphers |-> SAFARI_ciphers, tls12_ciphers |-> << >>,
          extensions |-> SAFARI_extensions, randomization |-> SAFARI_randomization,
          keys |-> {"user_agent", "header_case", "ciphers", "extensions", "randomization"} ],
      ios_safari_17 |->
        [ user_agent |-> "Mozilla/5.0 (iPhone; CPU iPhone OS 17_0 like Mac OS X) AppleWebKit/605.1.15 (KHTML, like Gecko) Version/17.0 Mobile/15E148 Safari/604.1",
          sec_ch_ua |-> "", sec_ch_ua_platform |-> "", sec_ch_ua_mobile |-> "",
          header_case |-> "title", ciphers |-> SAFARI_ciphers, tls12_ciphers |-> << >>,
          extensions |-> SAFARI_extensions, randomization |-> SAFARI_randomization,
          keys |-> {"user_agent", "header_case", "ciphers", "extensions", "randomization"} ] ]

\* randomization of a profile without that key: profile.get("randomization", {})
NoRandomization ==
    [ ua_minor_variance |-> FALSE, extension_variance |-> 0, cipher_shuffle |-> FALSE ]

LEGACY_tls12_ciphers ==
    << "ECDHE-ECDSA-AES128-GCM-SHA256",
       "ECDHE-RSA-AES128-GCM-SHA256",
       "ECDHE-ECDSA-AES256-GCM-SHA384",
       "ECDHE-RSA-AES256-GCM-SHA384",
       "ECDHE-ECDSA-CHACHA20-POLY1305",
       "ECDHE-RSA-CHACHA20-POLY1305" >>

\* the entries of PROFILES
PROFILES_DATA ==
    [
      chrome_120 |->
        [ user_agent |-> "Mozilla/5.0 (Windows NT 10.0; Win64; x64) AppleWebKit/537.36 (KHTML, like Gecko) Chrome/120.0.0.0 Safari/537.36",
          sec_ch_ua |-> "", sec_ch_ua_platform |-> "", sec_ch_ua_mobile |-> "",
          header_case |-> "lower", ciphers |-> << >>, tls12_ciphers |-> LEGACY_tls12_ciphers,
          extensions |-> << >>, randomization |-> NoRandomization,
          keys |-> {"user_agent", "header_case", "tls12_ciphers"} ],
      chrome_124 |->
        [ user_agent |-> "Mozilla/5.0 (Windows NT 10.0; Win64; x64) AppleWebKit/537.36 (KHTML, like Gecko) Chrome/124.0.0.0 Safari/537.36",
          sec_ch_ua |-> "", sec_ch_ua_platform |-> "", sec_ch_ua_mobile |-> "",
          header_case |-> "lower", ciphers |-> << >>, tls12_ciphers |-> LEGACY_tls12_ciphers,
          extensions |-> << >>, randomization |-> NoRandomization,
          keys |-> {"user_agent", "header_case", "tls12_ciphers"} ],
      firefox_120 |->
        [ user_agent |-> "Mozilla/5.0 (Windows NT 10.0; Win64; x64; rv:120.0) Gecko/20100101 Firefox/120.0",
          sec_ch_ua |-> "", sec_ch_ua_platform |-> "", sec_ch_ua_mobile |-> "",
          header_case |-> "title", ciphers |-> << >>, tls12_ciphers |-> LEGACY_tls12_ciphers,
          extensions |-> << >>, randomization |-> NoRandomization,
          keys |-> {"user_agent", "header_case", "tls12_ciphers"} ],
      mobile_safari_17 |->
        [ user_agent |-> "Mozilla/5.0 (iPhone; CPU iPhone OS 17_0 like Mac OS X) AppleWebKit/605.1.15 (KHTML, like Gecko) Version/17.0 Mobile/15E148 Safari/604.1",
          sec_ch_ua |-> "", sec_ch_ua_platform |-> "", sec_ch_ua_mobile |-> "",
          header_case |-> "title", ciphers |-> << >>, tls12_ciphers |-> LEGACY_tls12_ciphers,
          extensions |-> << >>, randomization |-> NoRandomization,
          keys |-> {"user_agent", "header_case", "tls12_ciphers"} ],
      ios_safari_17 |->
        [ user_agent |-> "Mozilla/5.0 (iPhone; CPU iPhone OS 17_0 like Mac OS X) AppleWebKit/605.1.15 (KHTML, like Gecko) Version/17.0 Mobile/15E148 Safari/604.1",
          sec_ch_ua |-> "", sec_ch_ua_platform |-> "", sec_ch_ua_mobile |-> "",
          header_case |-> "title", ciphers |-> << >>, tls12_ciphers |-> LEGACY_tls12_ciphers,
          extensions |-> << >>, randomization |-> NoRandomization,
          keys |-> {"user_agent", "header_case", "tls12_ciphers"} ] ]

_get_profile_LegacyOnly(name) ==
    IF name \in PROFILES THEN PROFILES_DATA[name] ELSE PROFILES_DATA[DEFAULT_PROFILE]

\* _get_profile (HAS_GALLERY holds): the gallery entry, given tls12_ciphers
\* from its ciphers, else the legacy entry, else the legacy default
_get_profile(name) ==
    LET n == IF name = "" THEN DEFAULT_PROFILE ELSE name
    IN  IF n \in FINGERPRINT_GALLERY
        THEN LET profile == GALLERY_DATA[n]
             IN  IF "ciphers" \in profile.keys /\ "tls12_ciphers" \notin profile.keys
                 THEN [profile EXCEPT !.tls12_ciphers = profile.ciphers,
                                      !.keys = @ \cup {"tls12_ciphers"}]
                 ELSE profile
        ELSE IF n \in PROFILES THEN PROFILES_DATA[n]
        ELSE PROFILES_DATA[DEFAULT_PROFILE]

\* ------------------------------------------------------------------------
\* Proxy values: None, a mapping (empty, requests-style or httpx-style keys,
\* every scheme mapped to url) or a bare proxy string
\* ------------------------------------------------------------------------
NoneProxy == [kind |-> "None", style |-> "", url |-> ""]
EmptyDict == [kind |-> "dict", style |-> "", url |-> ""]
StrProxy(u) == [kind |-> "str", style |-> "", url |-> u]
ReqDict(u) == [kind |-> "dict", style |-> "requests", url |-> u]
HttpxDict(u) == [kind |-> "dict", style |-> "httpx", url |-> u]
\* request_kwargs without a "proxies" entry
NoKw == [kind |-> "unset", style |-> "", url |-> ""]

\* Python truthiness of a proxy value
Truthy(p) == p # NoneProxy /\ p # EmptyDict

ProxyUrl(i) == "p" \o ToString(i)
\* the pool ["p1", ..., "pn"]
Pool(n) == [i \in 1..n |-> ProxyUrl(i)]

\* TLSChameleon._normalize_proxy_for_httpx
_normalize_proxy_for_httpx(proxy) ==
    IF proxy.kind = "str" THEN HttpxDict(proxy.url) ELSE proxy

\* ------------------------------------------------------------------------
\* Header maps: a Python dict as the sequence of its items [k, v] in
\* insertion order, the keys pairwise different as strings
\* ------------------------------------------------------------------------
HasKey(d, k) == \E i \in 1..Len(d) : d[i].k = k

\* d[k], for a key of d
DictGet(d, k) == d[CHOOSE i \in 1..Len(d) : d[i].k = k].v

\* d[k] = v: a known key keeps its position, a new key goes last
DictSet(d, k, v) ==
    IF HasKey(d, k)
    THEN [i \in 1..Len(d) |-> IF d[i].k = k THEN [k |-> k, v |-> v] ELSE d[i]]
    ELSE Append(d, [k |-> k, v |-> v])

RECURSIVE DictUpdate(_, _)
\* d.update(e)
DictUpdate(d, e) ==
    IF e = <<>> THEN d
    ELSE DictUpdate(DictSet(d, e[1].k, e[1].v), Tail(e))

\* the dict without key k (d.pop(k) leaves it)
DictPop(d, k) == SelectSeq(d, LAMBDA item : item.k # k)

\* the keys of d in order
DictKeys(d) == [i \in 1..Len(d) |-> d[i].k]

\* header names, in lower case
H_user_agent == <<"u", "s", "e", "r", "-", "a", "g", "e", "n", "t">>
H_accept == <<"a", "c", "c", "e", "p", "t">>
H_x_id == <<"x", "-", "i", "d">>

\* ------------------------------------------------------------------------
\* State
\* ------------------------------------------------------------------------
VARIABLES
    \* construction options (fixed after __init__)
    engine, on_block, max_retries, rotate_profiles, proxies_pool, block_detector,
    \* session state
    profile_name, rotate_index, proxy_index, proxies, http2,
    sess_profile,      \* the profile the transport session was initialised for
    sess_proxies,      \* session.proxies of the transport session
    \* request(): locals of the call in progress
    pc,                \* "idle" | "loop" (between two iterations of while True)
    attempt, kw_proxies,
    mimic_kw,          \* request_kwargs still holds mimic_assets=True
    \* what the caller of request() got
    result,            \* "none" | "returned" | "raised"
    ret,               \* the returned value (NoResp for None)
    err,               \* "" | "transport" | "ValueError" | "detector"
    \* observations
    n_requests,        \* calls of request() so far
    n_attempts,        \* transport calls of the current request()
    last_outcome,      \* "none" | "resp" | "transport_exc" | "adapt_exc"
    last_resp,         \* the response of the last attempt (NoResp if none)
    all_blocked,       \* every attempt so far gave a response classified blocked
    sent_proxy,        \* url of the proxy the last attempt was sent with
    pre,               \* session state when request() was entered
    rot_from,          \* profile_name before the _rotate_profile of the last step ("" if none)
    names,             \* the candidate list of that call when it had no rotation list
    rot_proxy,         \* pool entry selected by the last block-driven proxy rotation
    \* SpecBlock: the argument and the outcome of a direct _is_block call
    ib_resp, ib_out,
    \* SpecRot
    rot_k,             \* direct _rotate_proxy calls so far
    rot_fresh,         \* the cursor was -1 when the first of them began
    \* more construction options and session state
    headers,           \* self.headers, a header map
    header_order,      \* self.header_order (<<>> for None)
    retry_backoff_base, retry_jitter,   \* seconds, in tenths
    session,           \* self.session: live = FALSE for None, else the
                       \* number of close() calls its transport has received
    open_handles,      \* transports created and not closed yet
    \* the importable transport libraries (module globals of client.py)
    crequests, httpx,  \* FALSE for None
    \* SpecInit: the arguments of the constructor call and how it ended
    args,
    constructed,       \* "no" | "ok" | "RuntimeError"
    \* SpecMorph: the arguments and the result of a _morph_headers call
    mh_req, mh_profile, mh_out,
    \* SpecWaf: the headers of the response given to _check_waf_and_adapt
    wf_headers, wf_out,
    \* SpecScope: the with-block
    scope,             \* "none" | "body" | "exited"
    body_raised,       \* the body of the with-block ended with an exception
    n_close,           \* close() calls on the session so far
    waf_obs,           \* Spec: the session right after the WAF adaptation of the last attempt
    \* SpecExport: what import_session gave in a fresh session
    imp,
    \* SpecPeers: two sessions of one program
    heap,              \* the dict objects the program holds, by reference
    peers,             \* the two session objects; href is the reference in self.headers
    peer_op,           \* the session the last operation was called on, and the calls so far
    \* the environment of request(): fixed for a behaviour
    mimic_arg,         \* the caller passes mimic_assets=True to request()
    server_cookies,    \* the server sends Set-Cookie with every response
    \* more observations of request()
    slept,             \* the time.sleep durations of the current request(), in tenths
    held,              \* the cookies the session held when a request() ended
    threads,           \* the asset threads: started, running, ended, failed; last is
                       \* the number the last _mimic_assets call started, calls the
                       \* number of _mimic_assets calls
    \* the specifications of single functions: the call made and what it gave
    fcall

cfgVars == <<engine, on_block, max_retries, rotate_profiles, proxies_pool, block_detector>>
sessVars == <<profile_name, rotate_index, proxy_index, proxies, http2, sess_profile, sess_proxies,
              session, open_handles, headers>>
reqVars == <<pc, attempt, kw_proxies, mimic_kw, result, ret, err>>
obsVars == <<n_requests, n_attempts, last_outcome, last_resp, all_blocked, sent_proxy,
             pre, rot_from, names, rot_proxy, waf_obs, slept, held, threads>>
ibVars == <<ib_resp, ib_out>>
rotVars == <<rot_k, rot_fresh>>
optVars == <<header_order, retry_backoff_base, retry_jitter>>
envVars == <<crequests, httpx>>
ctorVars == <<args, constructed>>
mhVars == <<mh_req, mh_profile, mh_out>>
wfVars == <<wf_headers, wf_out>>
scopeVars == <<scope, body_raised, n_close>>
exportVars == <<imp>>
\* the variables of the specifications of single operations added below
peerVars == <<heap, peers, peer_op>>
callVars == <<mimic_arg, server_cookies>>
fnVars == <<fcall>>
auxVars == <<exportVars, peerVars, callVars, fnVars>>
\* what the actions of Spec, SpecBlock and SpecRot never touch
extVars == <<optVars, envVars, ctorVars, mhVars, wfVars, scopeVars, auxVars>>
vars == <<cfgVars, sessVars, reqVars, obsVars, ibVars, rotVars, extVars>>

\* no response has been inspected by the WAF adaptation yet
NoWafObs ==
    [seen |-> FALSE, waf |-> "none", before |-> "", profile_name |-> "",
     sess_profile |-> "", http2 |-> "None"]

\* the session object as a record, threaded through the methods below;
\* exc names the exception a method raised ("" if none); rot_from and names
\* observe the _rotate_profile call of the current step
Self ==
    [ profile_name |-> profile_name, rotate_index |-> rotate_index,
      proxy_index |-> proxy_index, proxies |-> proxies, http2 |-> http2,
      sess_profile |-> sess_profile, sess_proxies |-> sess_proxies,
      engine |-> engine, headers |-> headers, header_order |-> header_order,
      session |-> session, open_handles |-> open_handles,
      rot_from |-> "", names |-> {}, exc |-> "" ]

\* ------------------------------------------------------------------------
\* Transport handles
\* ------------------------------------------------------------------------
\* self.session is None
NoSession == [live |-> FALSE, closes |-> 0, jar |-> {}]
\* a transport session just created: its cookie jar is empty
NewSession == [live |-> TRUE, closes |-> 0, jar |-> {}]

\* the transport stores the cookies of the response it received
ReceiveCookies(s, cookies) == [s EXCEPT !.session.jar = @ \cup cookies]

SessionClose_KeepsHandle(s) == [s EXCEPT !.session.closes = @ + 1]

\* self.session.close(): the first close of a transport releases its handle
SessionClose(s) ==
    [s EXCEPT !.session.closes = @ + 1,
              !.open_handles = IF s.session.closes = 0 THEN @ - 1 ELSE @]

\* the header names _init_session writes
K_User_Agent == TitleCase(H_user_agent)
K_Sec_CH_UA == <<"S", "e", "c", "-", "C", "H", "-", "U", "A">>
K_Sec_CH_UA_Platform == K_Sec_CH_UA \o <<"-", "P", "l", "a", "t", "f", "o", "r", "m">>
K_Sec_CH_UA_Mobile == K_Sec_CH_UA \o <<"-", "M", "o", "b", "i", "l", "e">>

\* d[k] = v unless d has key k
SetDefault(d, k, v) == IF HasKey(d, k) THEN d ELSE DictSet(d, k, v)

\* _init_session, lines 229-241: self.headers after the profile's User-Agent
\* and Sec-CH-UA values went into it under the names it did not have
ProfileHeaders(hdrs, profile) ==
    LET h1 == IF profile.user_agent # ""
              THEN SetDefault(hdrs, K_User_Agent, profile.user_agent) ELSE hdrs
        h2 == IF "sec_ch_ua" \in profile.keys
              THEN SetDefault(h1, K_Sec_CH_UA, profile.sec_ch_ua) ELSE h1
        h3 == IF "sec_ch_ua_platform" \in profile.keys
              THEN SetDefault(h2, K_Sec_CH_UA_Platform, profile.sec_ch_ua_platform) ELSE h2
    IN  IF profile.sec_ch_ua_mobile # ""
        THEN SetDefault(h3, K_Sec_CH_UA_Mobile, profile.sec_ch_ua_mobile) ELSE h3

\* ------------------------------------------------------------------------
\* TLSChameleon._init_session: the existing transport session is closed,
\* the profile's headers go into self.headers, a new session is created for
\* self.profile_name with the engine that is importable, then the session
\* proxies are taken from self.proxies.  With
\* the curl engine session.proxies is a dict and dict.update(<str>) raises
\* ValueError, after the new session has been stored.  RuntimeError when the
\* library of the engine is not importable.
\* ------------------------------------------------------------------------
_init_session(s) ==
    LET sc    == IF s.session.live THEN SessionClose(s) ELSE s
        s0    == [sc EXCEPT !.headers = ProfileHeaders(s.headers, _get_profile(s.profile_name))]
        fresh == [s0 EXCEPT !.session = NewSession, !.open_handles = @ + 1,
                            !.sess_profile = s.profile_name, !.sess_proxies = EmptyDict]
    IN  IF s.engine = "curl" /\ crequests
        THEN IF ~Truthy(s.proxies) THEN fresh
             ELSE IF s.proxies.kind = "str"
                  THEN [fresh EXCEPT !.exc = "ValueError"]
                  ELSE [fresh EXCEPT !.sess_proxies = s.proxies]
        ELSE IF s.engine = "httpx" /\ httpx
        THEN IF ~Truthy(s.proxies) THEN fresh
             ELSE [fresh EXCEPT !.sess_proxies = _normalize_proxy_for_httpx(s.proxies)]
        ELSE [s0 EXCEPT !.exc = "RuntimeError"]

\* ------------------------------------------------------------------------
\* TLSChameleon._morph_headers
\*   profile: [empty, header_case, header_order]; empty = TRUE for {} ;
\*   header_case "absent" when the profile has no such key (then "title"),
\*   header_order <<>> when it has none
\* ------------------------------------------------------------------------
\* case_key of _morph_headers
case_key(case_mode, k) ==
    IF case_mode = "lower" THEN Lower(k)
    ELSE IF case_mode = "title" THEN TitleCase(k)
    ELSE k

RECURSIVE OrderedFirst(_, _, _, _)
\* the loop over norm_order: the first key of merged that equals the entry
\* when lower-cased is popped and emitted; the result is merged and morphed
OrderedFirst(norm_order, merged, morphed, case_mode) ==
    IF norm_order = <<>> THEN [merged |-> merged, morphed |-> morphed]
    ELSE LET key   == Head(norm_order)
             hits  == { i \in 1..Len(merged) : Lower(merged[i].k) = key }
         IN  IF hits = {} THEN OrderedFirst(Tail(norm_order), merged, morphed, case_mode)
             ELSE LET i         == CHOOSE j \in hits : \A h \in hits : j <= h
                      found_key == merged[i].k
                  IN  IF found_key = <<>>
                      THEN OrderedFirst(Tail(norm_order), merged, morphed, case_mode)
                      ELSE OrderedFirst(Tail(norm_order),
                                        DictPop(merged, found_key),
                                        DictSet(morphed, case_key(case_mode, found_key),
                                                merged[i].v),
                                        case_mode)

RECURSIVE AddRemaining(_, _, _)
\* the loop over merged.items()
AddRemaining(merged, morphed, case_mode) ==
    IF merged = <<>> THEN morphed
    ELSE AddRemaining(Tail(merged),
                      DictSet(morphed, case_key(case_mode, merged[1].k), merged[1].v),
                      case_mode)

_morph_headers(s, hdrs, profile) ==
    IF profile.empty THEN hdrs
    ELSE LET merged    == DictUpdate(s.headers, hdrs)
             case_mode == IF profile.header_case = "absent" THEN "title"
                          ELSE profile.header_case
             order_rule == IF s.header_order # <<>> THEN s.header_order
                           ELSE profile.header_order
             norm_order == [i \in 1..Len(order_rule) |-> Lower(order_rule[i])]
             st        == OrderedFirst(norm_order, merged, <<>>, case_mode)
         IN  AddRemaining(st.merged, st.morphed, case_mode)

\* ------------------------------------------------------------------------
\* WAF detection: the first part of TLSChameleon._check_waf_and_adapt
\* ------------------------------------------------------------------------
RECURSIVE LowerKeys(_, _)
\* {k.lower(): v for k, v in headers.items()}, accumulated into acc
LowerKeys(hdrs, acc) ==
    IF hdrs = <<>> THEN acc
    ELSE LowerKeys(Tail(hdrs), DictSet(acc, Lower(hdrs[1].k), hdrs[1].v))

H_server == <<"s", "e", "r", "v", "e", "r">>
H_cf_ray == <<"c", "f", "-", "r", "a", "y">>
H_x_akamai_transformed ==
    <<"x", "-", "a", "k", "a", "m", "a", "i", "-", "t", "r", "a", "n", "s", "f", "o", "r", "m", "e", "d">>
H_datadome == <<"d", "a", "t", "a", "d", "o", "m", "e">>
H_x_amz_cf_id == <<"x", "-", "a", "m", "z", "-", "c", "f", "-", "i", "d">>
S_cloudflare == <<"c", "l", "o", "u", "d", "f", "l", "a", "r", "e">>
S_akamai == <<"a", "k", "a", "m", "a", "i">>

waf_detected_AkamaiFirst(resp_headers) ==
    LET hl     == LowerKeys(resp_headers, <<>>)
        server == IF HasKey(hl, H_server) THEN Lower(DictGet(hl, H_server)) ELSE <<>>
    IN  IF Contains(server, S_akamai) \/ HasKey(hl, H_x_akamai_transformed)
        THEN "akamai"
        ELSE IF Contains(server, S_cloudflare) \/ HasKey(hl, H_cf_ray)
        THEN "cloudflare"
        ELSE IF HasKey(hl, H_datadome) THEN "datadome"
        ELSE IF HasKey(hl, H_x_amz_cf_id) THEN "cloudfront"
        ELSE "none"

\* the value of waf_detected ("none" for None) for the headers of a response
waf_detected(resp_headers) ==
    LET hl     == LowerKeys(resp_headers, <<>>)
        server == IF HasKey(hl, H_server) THEN Lower(DictGet(hl, H_server)) ELSE <<>>
    IN  IF Contains(server, S_cloudflare) \/ HasKey(hl, H_cf_ray)
        THEN "cloudflare"
        ELSE IF Contains(server, S_akamai) \/ HasKey(hl, H_x_akamai_transformed)
        THEN "akamai"
        ELSE IF HasKey(hl, H_datadome) THEN "datadome"
        ELSE IF HasKey(hl, H_x_amz_cf_id) THEN "cloudfront"
        ELSE "none"

_select_engine_AsRequested(preferred) ==
    IF preferred \in {"curl", "httpx"} THEN preferred
    ELSE IF crequests THEN "curl" ELSE "httpx"

\* _select_engine(preferred); preferred is "curl", "httpx", "None" or any
\* other string
_select_engine(preferred) ==
    IF preferred \in {"curl", "httpx"}
    THEN IF preferred = "curl" /\ ~crequests THEN "httpx"
         ELSE IF preferred = "httpx" /\ ~httpx
              THEN (IF crequests THEN "curl" ELSE "httpx")
              ELSE preferred
    ELSE IF crequests THEN "curl" ELSE "httpx"

\* min and max of two numbers
Min2(a, b) == IF a <= b THEN a ELSE b
Max2(a, b) == IF a >= b THEN a ELSE b

\* the header names of the "cloudflare" preset
CloudflareHeaderOrder ==
    << <<"U", "s", "e", "r", "-", "A", "g", "e", "n", "t">>,
       <<"A", "c", "c", "e", "p", "t">>,
       <<"A", "c", "c", "e", "p", "t", "-", "L", "a", "n", "g", "u", "a", "g", "e">>,
       <<"A", "c", "c", "e", "p", "t", "-", "E", "n", "c", "o", "d", "i", "n", "g">>,
       <<"C", "o", "n", "n", "e", "c", "t", "i", "o", "n">> >>

_apply_site_preset_NoFloors(o, site) ==
    IF Lower(site) = <<"c", "l", "o", "u", "d", "f", "l", "a", "r", "e">>
    THEN [o EXCEPT
            !.rotate_profiles = IF @ = <<>>
                                THEN <<"chrome_124", "chrome_120", "mobile_safari_17">>
                                ELSE @,
            !.http2 = IF @ = "None" THEN "True" ELSE @,
            !.header_order = IF @ = <<>> THEN CloudflareHeaderOrder ELSE @]
    ELSE o

\* TLSChameleon._apply_site_preset; o holds the fields __init__ has assigned,
\* the retry delays in tenths of a second
_apply_site_preset(o, site) ==
    IF Lower(site) = <<"c", "l", "o", "u", "d", "f", "l", "a", "r", "e">>
    THEN [o EXCEPT
            !.rotate_profiles = IF @ = <<>>
                                THEN <<"chrome_124", "chrome_120", "mobile_safari_17">>
                                ELSE @,
            !.max_retries = Max2(@, 3),
            !.retry_backoff_base = Min2(@, 8),
            !.retry_jitter = Max2(@, 4),
            !.http2 = IF @ = "None" THEN "True" ELSE @,
            !.header_order = IF @ = <<>> THEN CloudflareHeaderOrder ELSE @]
    ELSE o

\* a constructor argument: passed by the caller, or left to its default
Given(v) == [given |-> TRUE, val |-> v]
Default(v) == [given |-> FALSE, val |-> v]

\* the signature of TLSChameleon.__init__ with every argument at its default
\* ("" and <<>> stand for None)
DefaultArgs ==
    [ fingerprint |-> Default(""), profile |-> Default(""),
      engine |-> Default("None"), headers |-> Default(<<>>),
      proxies |-> Default(NoneProxy), rotate_profiles |-> Default(<<>>),
      on_block |-> Default("rotate"), max_retries |-> Default(2),
      retry_backoff_base |-> Default(10), retry_jitter |-> Default(3),
      block_detector |-> Default("none"), site |-> Default(<<>>),
      proxies_pool |-> Default(<<>>), header_order |-> Default(<<>>),
      http2 |-> Default("None") ]

\* TLSChameleon.__init__: the fields of the new object; exc is the exception
\* the constructor raised ("" if none)
__init__(a) ==
    LET given == IF a.profile.val # "" THEN a.profile.val
                 ELSE IF a.fingerprint.val # "" THEN a.fingerprint.val
                 ELSE DEFAULT_PROFILE
        name  == IF _profile_exists(given) THEN given ELSE DEFAULT_PROFILE
        p     == a.proxies.val
        o0    == [ profile_name |-> name,
                   engine |-> _select_engine(a.engine.val),
                   rotate_profiles |-> a.rotate_profiles.val,
                   on_block |-> a.on_block.val,
                   max_retries |-> a.max_retries.val,
                   retry_backoff_base |-> a.retry_backoff_base.val,
                   retry_jitter |-> a.retry_jitter.val,
                   block_detector |-> a.block_detector.val,
                   proxies_pool |-> a.proxies_pool.val,
                   header_order |-> a.header_order.val,
                   http2 |-> a.http2.val,
                   rotate_index |-> -1,
                   proxy_index |-> -1,
                   session |-> NoSession,
                   open_handles |-> 0,
                   proxies |-> IF Truthy(p) /\ p.kind = "str" THEN ReqDict(p.url)
                               ELSE IF Truthy(p) THEN p ELSE EmptyDict,
                   headers |-> a.headers.val,
                   sess_profile |-> "",
                   sess_proxies |-> EmptyDict,
                   exc |-> "" ]
        o1    == IF a.site.val # <<>> THEN _apply_site_preset(o0, a.site.val) ELSE o0
    IN  _init_session(o1)

\* TLSChameleon._rotate_profile: the set of states random.choice can give
_rotate_profile(s) ==
    IF rotate_profiles # <<>>
    THEN LET i == (s.rotate_index + 1) % Len(rotate_profiles)
         IN  { [s EXCEPT !.rotate_index = i, !.profile_name = rotate_profiles[i + 1],
                         !.rot_from = s.profile_name] }
    ELSE LET cand == { n \in PROFILES : n # s.profile_name }
         IN  IF cand = {} THEN { s }
             ELSE { [s EXCEPT !.profile_name = n, !.names = cand,
                              !.rot_from = s.profile_name] : n \in cand }

_rotate_proxy_NoWrap(s) ==
    IF proxies_pool = <<>> THEN s
    ELSE [s EXCEPT !.proxy_index =
             IF s.proxy_index + 1 >= Len(proxies_pool) THEN s.proxy_index
             ELSE s.proxy_index + 1]

\* TLSChameleon._rotate_proxy
_rotate_proxy(s) ==
    IF proxies_pool = <<>> THEN s
    ELSE [s EXCEPT !.proxy_index = (s.proxy_index + 1) % Len(proxies_pool)]

\* TLSChameleon._current_proxy: the value returned and the session after it;
\* a cursor past the end of the pool makes the list access of line 509 raise
\* IndexError
_current_proxy(s) ==
    IF Len(proxies_pool) > 0
    THEN LET s1 == IF s.proxy_index < 0 THEN [s EXCEPT !.proxy_index = 0] ELSE s
         IN  IF s1.proxy_index >= Len(proxies_pool)
             THEN [val |-> NoneProxy, s |-> [s1 EXCEPT !.exc = "IndexError"]]
             ELSE [val |-> StrProxy(proxies_pool[s1.proxy_index + 1]), s |-> s1]
    ELSE [val |-> IF Truthy(s.proxies) THEN s.proxies ELSE NoneProxy, s |-> s]

_rotate_to_modern_chrome_AnyLegacy(s) ==
    { _init_session([s EXCEPT !.profile_name = n]) : n \in PROFILES }

\* TLSChameleon._rotate_to_modern_chrome
_rotate_to_modern_chrome(s) ==
    LET chromes == { n \in PROFILES : ContainsChrome(n) }
    IN  IF chromes = {} THEN { s }
        ELSE { _init_session([s EXCEPT !.profile_name = n]) : n \in chromes }

_check_waf_and_adapt_KeepsProfile(s, waf) ==
    IF waf = "cloudflare" THEN { [s EXCEPT !.http2 = "True"] } ELSE { s }

\* TLSChameleon._check_waf_and_adapt, on the signature of the response's headers
_check_waf_and_adapt(s, waf) ==
    IF waf = "cloudflare"
    THEN LET s1 == [s EXCEPT !.http2 = "True"]
         IN  IF ~ContainsChrome(s1.profile_name)
             THEN _rotate_to_modern_chrome(s1)
             ELSE { s1 }
    ELSE { s }

\* TLSChameleon.export_session: the dict holds self.proxies and self.headers
\* themselves, not copies
export_session(s) ==
    [ profile_name |-> s.profile_name, engine |-> s.engine, proxies |-> s.proxies,
      headers |-> s.headers, rotate_index |-> s.rotate_index,
      proxy_index |-> s.proxy_index ]

\* TLSChameleon.import_session, for a state that has every key
import_session(s, state) ==
    _init_session(
        [s EXCEPT !.profile_name = state.profile_name, !.engine = state.engine,
                  !.proxies = state.proxies, !.headers = state.headers,
                  !.rotate_index = state.rotate_index, !.proxy_index = state.proxy_index])

\* TLSChameleon.sync_fingerprint(user_agent=ua): "" for no user_agent
sync_fingerprint(s, ua) ==
    _init_session(
        IF ua # "" THEN [s EXCEPT !.headers = DictSet(s.headers, K_User_Agent, ua)] ELSE s)

\* ------------------------------------------------------------------------
\* Inputs of the session specification
\* ------------------------------------------------------------------------
Engines == {"curl", "httpx"}
BlockPolicies == {"none", "rotate", "proxy", "both"}
\* the profile= argument: a gallery-only non-Chrome name and a name the
\* catalog does not have (the default, a legacy Chrome name, is taken)
ProfileArgs == {"edge_124_win11", "no_such_profile"}
\* rotate_profiles=: None (<<>>) or an explicit list
RotationLists ==
    { <<>>, <<"chrome_124", "firefox_120">> }
\* proxies_pool= with proxies=: every pool ["p1", ..] without a session
\* proxy, and the session proxy "p0" (normalised to a mapping by __init__)
\* without a pool and with a one-entry pool
ProxyArgs ==
    { [pool |-> Pool(n), proxies |-> EmptyDict] : n \in 0..MaxPoolLen }
    \cup { [pool |-> Pool(n), proxies |-> ReqDict("p0")] : n \in 0..1 }

\* what the transport can answer on one attempt
Responses ==
    { Resp(200, "str", <<"o", "k">>, "none"),
      Resp(403, "str", <<"o", "k">>, "none"),
      Resp(200, "str", <<"o", "k">>, "cloudflare"),
      Resp(200, "str", <<"x", "C", "l", "o", "u", "d", "F", "l", "a", "r", "e">>, "cloudflare") }
\* NoResp stands for a transport exception (session.request raised)
TransportOutcomes == Responses \cup { NoResp }

\* ------------------------------------------------------------------------
\* TLSChameleon.__init__
\* ------------------------------------------------------------------------
InitSessionState ==
    /\ engine \in Engines
    /\ on_block \in BlockPolicies
    /\ max_retries \in -1..MaxRetriesBound
    /\ rotate_profiles \in RotationLists
    /\ \E a \in ProxyArgs :
          /\ proxies_pool = a.pool
          /\ proxies = a.proxies
    /\ block_detector \in BlockDetectors
    /\ \E arg \in ProfileArgs :
          profile_name = IF _profile_exists(arg) THEN arg ELSE DEFAULT_PROFILE
    \* a caller's block_detector is tried on the default profile and the
    \* curl engine without proxy arguments, a profile other than the default
    \* one on the curl engine without proxies=; the engines and the proxy
    \* arguments are varied in full for the default profile
    /\ block_detector # "none"
          => /\ profile_name = DEFAULT_PROFILE
             /\ engine = "curl"
             /\ proxies_pool = <<>>
             /\ proxies = EmptyDict
    /\ profile_name # DEFAULT_PROFILE
          => /\ engine = "curl"
             /\ proxies = EmptyDict
    /\ rotate_index = -1
    /\ proxy_index = -1
    /\ http2 = "None"
    /\ sess_profile = profile_name
    /\ sess_proxies = proxies
    /\ session = NewSession
    /\ open_handles = 1

\* no asset thread was started
NoThreads == [started |-> 0, running |-> 0, ended |-> 0, failed |-> 0, last |-> 0, calls |-> 0]

IdleRequestState ==
    /\ pc = "idle"
    /\ attempt = 0
    /\ kw_proxies = NoKw
    /\ mimic_kw = FALSE
    /\ result = "none"
    /\ ret = NoResp
    /\ err = ""
    /\ slept = <<>>
    /\ held = {}
    /\ threads = NoThreads
    /\ n_requests = 0
    /\ n_attempts = 0
    /\ last_outcome = "none"
    /\ last_resp = NoResp
    /\ all_blocked = TRUE
    /\ sent_proxy = ""
    /\ pre = [profile_name |-> profile_name, rotate_index |-> rotate_index,
              proxy_index |-> proxy_index, proxies |-> proxies]
    /\ rot_from = ""
    /\ names = {}
    /\ rot_proxy = ""
    /\ waf_obs = NoWafObs

\* the options the session specifications leave at their defaults
DefaultOptionState ==
    /\ headers = ProfileHeaders(<<>>, _get_profile(profile_name))
    /\ header_order = <<>>
    /\ retry_backoff_base = 10
    /\ retry_jitter = 3

\* base 1.0 s and retry_jitter=0.0: the backoff has no random part
SteadyOptionState ==
    /\ headers = ProfileHeaders(<<>>, _get_profile(profile_name))
    /\ header_order = <<>>
    /\ retry_backoff_base = 10
    /\ retry_jitter = 0

\* both transport libraries are importable
BothImportable ==
    /\ crequests = TRUE
    /\ httpx = TRUE

\* the session was constructed; no call of the other specifications is in progress
IdleCtorState ==
    /\ args = DefaultArgs
    /\ constructed = "ok"

IdleMorphState ==
    /\ mh_req = <<>>
    /\ mh_profile = [empty |-> FALSE, header_case |-> "absent", header_order |-> <<>>]
    /\ mh_out = [done |-> FALSE, headers |-> <<>>]

IdleWafState ==
    /\ wf_headers = <<>>
    /\ wf_out = [done |-> FALSE, detected |-> "none"]

IdleScopeState ==
    /\ scope = "none"
    /\ body_raised = FALSE
    /\ n_close = 0

\* no function has been called on its own
NoCall == [fn |-> "none"]

\* no state has been exported and imported
IdleExportState ==
    /\ imp = [done |-> FALSE, fresh_engine |-> "", exc |-> "", state |-> <<>>, session |-> <<>>]
    /\ fcall = NoCall

\* no second session exists
IdlePeerState ==
    /\ heap = <<>>
    /\ peers = <<>>
    /\ peer_op = [actor |-> "", n |-> 0]

\* requests are made without mimic_assets, to a server that sets no cookie
PlainCallState ==
    /\ mimic_arg = FALSE
    /\ server_cookies = FALSE

\* no call of the specifications of single operations is in progress
IdleAuxState ==
    /\ IdleExportState
    /\ IdlePeerState
    /\ PlainCallState

IdleBlockState ==
    /\ ib_resp = NoResp
    /\ ib_out = [done |-> FALSE, blocked |-> FALSE, exc |-> FALSE]

IdleRotState ==
    /\ rot_k = 0
    /\ rot_fresh = FALSE

\* no call of the other specifications is in progress
IdleOtherState ==
    /\ IdleExportState
    /\ IdlePeerState
    /\ IdleBlockState
    /\ IdleRotState
    /\ IdleCtorState
    /\ IdleMorphState
    /\ IdleWafState
    /\ IdleScopeState

Init ==
    /\ InitSessionState
    /\ SteadyOptionState
    /\ BothImportable
    /\ IdleRequestState
    /\ IdleAuxState
    /\ IdleBlockState
    /\ IdleRotState
    /\ IdleCtorState
    /\ IdleMorphState
    /\ IdleWafState
    /\ IdleScopeState

\* ------------------------------------------------------------------------
\* TLSChameleon.request
\* ------------------------------------------------------------------------
\* entry of request(): attempt = 0, a fresh copy of the caller's kwargs
\* the calls of request() of a behaviour; a server that sets cookies is
\* visited MaxCookieRequests times
RequestLimit == IF server_cookies THEN MaxCookieRequests ELSE MaxRequests

\* request() is entered: lines 371-385
BeginRequest ==
    /\ pc' = "loop"
    /\ attempt' = 0
    /\ kw_proxies' = NoKw
    /\ mimic_kw' = mimic_arg
    /\ slept' = <<>>
    /\ result' = "none"
    /\ ret' = NoResp
    /\ err' = ""
    /\ n_requests' = n_requests + 1
    /\ n_attempts' = 0
    /\ last_outcome' = "none"
    /\ last_resp' = NoResp
    /\ all_blocked' = TRUE
    /\ pre' = [profile_name |-> profile_name, rotate_index |-> rotate_index,
               proxy_index |-> proxy_index, proxies |-> proxies]
    /\ sent_proxy' = ""
    /\ rot_from' = ""
    /\ names' = {}
    /\ waf_obs' = NoWafObs
    /\ UNCHANGED <<rot_proxy, held, threads>>

StartRequest ==
    /\ pc = "idle"
    /\ n_requests < RequestLimit
    /\ BeginRequest
    /\ UNCHANGED <<cfgVars, sessVars, ibVars, rotVars, extVars>>

\* the session fields of record s become the state
StoreSelf(s) ==
    /\ profile_name' = s.profile_name
    /\ rotate_index' = s.rotate_index
    /\ proxy_index' = s.proxy_index
    /\ proxies' = s.proxies
    /\ http2' = s.http2
    /\ sess_profile' = s.sess_profile
    /\ sess_proxies' = s.sess_proxies
    /\ session' = s.session
    /\ open_handles' = s.open_handles
    /\ headers' = s.headers
    /\ rot_from' = s.rot_from
    /\ names' = s.names

\* request() ends: "returned" with value r, or "raised" with exception e
Finish(s, how, r, e) ==
    /\ StoreSelf(s)
    /\ pc' = "idle"
    /\ result' = how
    /\ ret' = r
    /\ err' = e
    /\ held' = held \cup s.session.jar
    /\ UNCHANGED <<attempt, rot_proxy, slept>>

backoff_delay_Linear(base, k) == base * k

\* line 456: the delay before retry k, attempt having become k at line 438
backoff_delay(base, k) == base * 2^(k - 1)

\* line 457: what random.uniform(0, jitter) can give, in tenths
Jitters(jitter) == 0..jitter

\* line 833: the cap on the asset threads of one call
ASSET_CAP == 20

_mimic_assets_NoCap(th, n) ==
    [th EXCEPT !.started = @ + n, !.running = @ + n, !.last = n, !.calls = @ + 1]

\* TLSChameleon._mimic_assets for a page that names n different assets: a
\* daemon thread is started for each of the first 20 and none is joined
_mimic_assets(th, n) ==
    LET k == Min2(n, ASSET_CAP)
    IN  [th EXCEPT !.started = @ + k, !.running = @ + k, !.last = k, !.calls = @ + 1]

\* the cookie every response sets when the server sets cookies
ServerCookies == IF server_cookies THEN {"sid"} ELSE {}

\* the numbers of different assets a page can name
AssetCounts == {0, 1, MaxPageAssets}

RotateProfileOnBlock_NoReinit(s) ==
    IF on_block \in {"rotate", "both"} THEN _rotate_profile(s) ELSE { s }

\* lines 439-442: the profile part of the block handling
RotateProfileOnBlock(s) ==
    IF on_block \in {"rotate", "both"}
    THEN { _init_session(t) : t \in _rotate_profile(s) }
    ELSE { s }

\* lines 444-454: the proxy part of the block handling (sticky proxy)
RotateProxyOnBlock(s) ==
    IF on_block \in {"proxy", "both"}
    THEN LET cp == _current_proxy(_rotate_proxy(s))
             s1 == [cp.s EXCEPT !.proxies = cp.val]
         IN  IF engine = "curl"
             THEN IF ~Truthy(s1.proxies) THEN s1
                  ELSE IF s1.proxies.kind = "str"
                       THEN [s1 EXCEPT !.exc = "ValueError"]
                       ELSE [s1 EXCEPT !.sess_proxies = s1.proxies]
             ELSE _init_session(s1)
    ELSE s

\* line 434: the loop returns resp
ShouldReturn_OffByOne(blocked, att) ==
    ~blocked \/ on_block = "none" \/ att > max_retries

ShouldReturn_IgnoresNone(blocked, att) ==
    ~blocked \/ att >= max_retries

ShouldReturn(blocked, att) ==
    ~blocked \/ on_block = "none" \/ att >= max_retries

\* one iteration of the while True loop: lines 394-458
Attempt ==
    /\ pc = "loop"
    /\ \E o \in TransportOutcomes,
          n \in (IF mimic_kw THEN AssetCounts ELSE {0}),
          j \in Jitters(retry_jitter) :
         LET cp  == _current_proxy(Self)
             s1  == cp.s
             kw1 == IF Truthy(cp.val) /\ cp.val # s1.proxies
                    THEN IF engine = "curl" THEN cp.val
                         ELSE _normalize_proxy_for_httpx(cp.val)
                    ELSE kw_proxies
             sent == IF kw1 # NoKw THEN kw1.url ELSE s1.sess_proxies.url
             \* line 410: the transport answers and keeps the cookies it got
             s1c == IF o.present THEN ReceiveCookies(s1, ServerCookies) ELSE s1
         IN
         \* line 394 is outside the try: its exception leaves request()
         IF s1.exc # ""
         THEN /\ Finish([s1 EXCEPT !.exc = ""], "raised", NoResp, s1.exc)
              /\ UNCHANGED <<kw_proxies, mimic_kw, sent_proxy, n_attempts, last_resp,
                             last_outcome, all_blocked, waf_obs, threads>>
         ELSE
         /\ kw_proxies' = kw1
         /\ mimic_kw' = FALSE
         /\ sent_proxy' = sent
         /\ n_attempts' = n_attempts + 1
         /\ last_resp' = o
         /\ \E s2x \in (IF o.present THEN _check_waf_and_adapt(s1c, o.waf) ELSE { s1c }) :
              LET tryExc == IF ~o.present THEN "transport" ELSE s2x.exc
                  s2     == [s2x EXCEPT !.exc = ""]
                  resp   == IF tryExc # "" THEN NoResp ELSE o
                  ib     == IF resp.present THEN _is_block(resp, block_detector)
                            ELSE [blocked |-> TRUE, exc |-> FALSE]
                  blocked == ib.blocked
              IN
              /\ last_outcome' = IF tryExc = "" THEN "resp"
                                 ELSE IF tryExc = "transport" THEN "transport_exc"
                                 ELSE "adapt_exc"
              /\ all_blocked' = (all_blocked /\ tryExc = "" /\ blocked)
              /\ waf_obs' = IF o.present
                            THEN [seen |-> TRUE, waf |-> o.waf,
                                  before |-> s1.profile_name,
                                  profile_name |-> s2x.profile_name,
                                  sess_profile |-> s2x.sess_profile,
                                  http2 |-> s2x.http2]
                            ELSE NoWafObs
              \* lines 419-420
              /\ threads' = IF mimic_kw /\ tryExc = "" /\ 200 <= o.status /\ o.status < 300
                            THEN _mimic_assets(threads, n)
                            ELSE threads
              /\ IF tryExc # "" /\ attempt >= max_retries
                 THEN Finish(s2, "raised", NoResp, tryExc)
                 ELSE IF ib.exc
                 THEN Finish(s2, "raised", NoResp, "detector")
                 ELSE IF ShouldReturn(blocked, attempt)
                 THEN Finish(s2, "returned", resp, "")
                 ELSE \E s3 \in RotateProfileOnBlock(s2) :
                        IF s3.exc # ""
                        THEN /\ Finish(s3, "raised", NoResp, s3.exc)
                        ELSE LET s4 == RotateProxyOnBlock(s3)
                             IN  IF s4.exc # ""
                                 THEN /\ StoreSelf(s4)
                                      /\ pc' = "idle"
                                      /\ result' = "raised"
                                      /\ ret' = NoResp
                                      /\ err' = s4.exc
                                      /\ held' = held \cup s4.session.jar
                                      /\ attempt' = attempt
                                      /\ rot_proxy' = rot_proxy
                                      /\ slept' = slept
                                 ELSE /\ StoreSelf(s4)
                                      /\ pc' = "loop"
                                      /\ attempt' = attempt + 1
                                      /\ rot_proxy' =
                                            IF on_block \in {"proxy", "both"}
                                               /\ proxies_pool # <<>>
                                            THEN proxies_pool[s4.proxy_index + 1]
                                            ELSE rot_proxy
                                      \* lines 456-458
                                      /\ slept' = Append(slept,
                                             backoff_delay(retry_backoff_base, attempt + 1) + j)
                                      /\ UNCHANGED <<result, ret, err, held>>
    /\ UNCHANGED <<n_requests, pre>>
    /\ UNCHANGED <<cfgVars, ibVars, rotVars, extVars>>

Next ==
    \/ StartRequest
    \/ Attempt

Spec == Init /\ [][Next]_vars

\* ------------------------------------------------------------------------
\* SpecExport: a session makes requests; between two requests its exported
\* state is imported into a session just constructed
\* ------------------------------------------------------------------------
\* engine= of the importing session
FreshEngineArgs == { Default("None"), Given("curl"), Given("httpx") }

InitExport ==
    /\ Init
    /\ on_block \in {"none", "proxy", "rotate"}
    /\ max_retries \in 0..1
    /\ block_detector = "none"

\* fresh = TLSChameleon(engine=e); fresh.import_session(self.export_session()).
\* The two sessions then hold the same headers dict, so what the import
\* wrote into it shows in both.
ImportCall ==
    /\ pc = "idle"
    /\ ~imp.done
    /\ \E e \in FreshEngineArgs :
         LET fresh == __init__([DefaultArgs EXCEPT !.engine = e])
             state == export_session(Self)
             r     == import_session(fresh, state)
         IN  /\ fresh.exc = ""
             /\ imp' = [done |-> TRUE, fresh_engine |-> fresh.engine, exc |-> r.exc,
                        state |-> state,
                        session |-> [profile_name |-> r.profile_name, engine |-> r.engine,
                                     proxies |-> r.proxies, headers |-> r.headers]]
             /\ headers' = r.headers
    /\ UNCHANGED <<profile_name, rotate_index, proxy_index, proxies, http2,
                   sess_profile, sess_proxies, session, open_handles>>
    /\ UNCHANGED <<cfgVars, reqVars, obsVars, ibVars, rotVars,
                   optVars, envVars, ctorVars, mhVars, wfVars, scopeVars,
                   peerVars, callVars, fnVars>>

NextExport ==
    \/ StartRequest
    \/ Attempt
    \/ ImportCall

SpecExport == InitExport /\ [][NextExport]_vars

\* ------------------------------------------------------------------------
\* SpecBlock: _is_block called directly on a session built with defaults
\* ------------------------------------------------------------------------
DefaultSessionState ==
    /\ engine = "curl"
    /\ on_block = "rotate"
    /\ max_retries = MaxRetriesBound
    /\ rotate_profiles = <<>>
    /\ profile_name = DEFAULT_PROFILE
    /\ rotate_index = -1
    /\ proxy_index = -1
    /\ proxies = EmptyDict
    /\ http2 = "None"
    /\ sess_profile = profile_name
    /\ sess_proxies = proxies
    /\ session = NewSession
    /\ open_handles = 1

\* the texts resp.text can give: a body, None, or an exception on access
TextReadings ==
    { [tk |-> "str", text |-> b] : b \in Bodies }
    \cup { [tk |-> "none", text |-> <<>>], [tk |-> "raises", text |-> <<>>] }

BlockInputs ==
    { NoResp } \cup
    { Resp(st, r.tk, r.text, "none") : st \in StatusCodes, r \in TextReadings }

InitBlock ==
    /\ DefaultSessionState
    /\ proxies_pool = <<>>
    /\ block_detector \in {"none"} \cup DetectorOutcomes
    /\ IdleRequestState
    /\ IdleAuxState
    /\ ib_resp \in BlockInputs
    /\ ib_out = [done |-> FALSE, blocked |-> FALSE, exc |-> FALSE]
    /\ IdleRotState
    /\ DefaultOptionState
    /\ BothImportable
    /\ IdleCtorState
    /\ IdleMorphState
    /\ IdleWafState
    /\ IdleScopeState

IsBlockCall ==
    /\ ~ib_out.done
    /\ LET r == _is_block(ib_resp, block_detector)
       IN  ib_out' = [done |-> TRUE, blocked |-> r.blocked, exc |-> r.exc]
    /\ UNCHANGED <<ib_resp, cfgVars, sessVars, reqVars, obsVars, rotVars, extVars>>

\* the caller takes another response
NextBlockInput ==
    /\ ib_out.done
    /\ ib_resp' \in BlockInputs
    /\ ib_out' = [done |-> FALSE, blocked |-> FALSE, exc |-> FALSE]
    /\ UNCHANGED <<cfgVars, sessVars, reqVars, obsVars, rotVars, extVars>>

NextBlock ==
    \/ IsBlockCall
    \/ NextBlockInput

SpecBlock == InitBlock /\ [][NextBlock]_vars

\* ------------------------------------------------------------------------
\* SpecRot: _rotate_proxy and _current_proxy called directly
\* ------------------------------------------------------------------------
RECURSIVE SeqsUpTo(_, _)
\* the sequences over S of length at most n
SeqsUpTo(S, n) ==
    IF n = 0 THEN { <<>> }
    ELSE LET shorter == SeqsUpTo(S, n - 1)
         IN  shorter \cup { Append(q, x) : q \in { r \in shorter : Len(r) = n - 1 }, x \in S }

RotPools == SeqsUpTo({ ProxyUrl(i) : i \in 1..MaxRotPoolLen }, MaxRotPoolLen)

InitRot ==
    /\ DefaultSessionState
    /\ proxies_pool \in RotPools
    /\ block_detector = "none"
    /\ IdleRequestState
    /\ IdleAuxState
    /\ IdleBlockState
    /\ IdleRotState
    /\ DefaultOptionState
    /\ BothImportable
    /\ IdleCtorState
    /\ IdleMorphState
    /\ IdleWafState
    /\ IdleScopeState

RotateProxyCall ==
    /\ rot_k < MaxRotations
    /\ LET s == _rotate_proxy(Self)
       IN  /\ proxy_index' = s.proxy_index
           /\ rot_k' = rot_k + 1
           /\ rot_fresh' = IF rot_k = 0 THEN proxy_index = -1 ELSE rot_fresh
    /\ UNCHANGED <<profile_name, rotate_index, proxies, http2, sess_profile, sess_proxies,
                   session, open_handles, headers>>
    /\ UNCHANGED <<cfgVars, reqVars, obsVars, ibVars, extVars>>

CurrentProxyCall ==
    /\ LET cp == _current_proxy(Self)
       IN  /\ proxy_index' = cp.s.proxy_index
           /\ sent_proxy' = cp.val.url
    /\ UNCHANGED <<profile_name, rotate_index, proxies, http2, sess_profile, sess_proxies,
                   session, open_handles, headers>>
    /\ UNCHANGED <<n_requests, n_attempts, last_outcome, last_resp, all_blocked,
                   pre, rot_from, names, rot_proxy, waf_obs, slept, held, threads>>
    /\ UNCHANGED <<cfgVars, reqVars, ibVars, rotVars, extVars>>

NextRot ==
    \/ RotateProxyCall
    \/ CurrentProxyCall

SpecRot == InitRot /\ [][NextRot]_vars

\* ------------------------------------------------------------------------
\* SpecMorph: _morph_headers called on session headers and request headers
\* drawn from bounded sets
\* ------------------------------------------------------------------------
\* header names as callers write them: user-agent, User-Agent, Accept, x-id, X-ID
MorphNames ==
    { H_user_agent, TitleCase(H_user_agent), TitleCase(H_accept), H_x_id, Upper(H_x_id) }

\* the dicts with at most n keys of S, the i-th value being tag followed by i
HeaderMaps(S, n, tag) ==
    { [i \in 1..Len(q) |-> [k |-> q[i], v |-> tag \o ToString(i)]] :
        q \in { r \in SeqsUpTo(S, n) :
                  \A i, j \in 1..Len(r) : i # j => r[i] # r[j] } }

\* headers= of the session: any dict
SessionHeaderMaps == HeaderMaps(MorphNames, MaxHeaders, "s")

\* headers= of a request: a dict that names every header once
RequestHeaderMaps ==
    { d \in HeaderMaps(MorphNames, MaxHeaders, "r") :
        \A i, j \in 1..Len(d) : i # j => Lower(d[i].k) # Lower(d[j].k) }

\* the profile argument: the three case modes, with and without header_order
MorphProfiles ==
    { [empty |-> FALSE, header_case |-> c, header_order |-> o] :
        c \in {"lower", "title", "as-is"},
        o \in { <<>>, << TitleCase(H_accept), TitleCase(H_user_agent) >> } }

\* header_order= of the session: None or a list
HeaderOrderArgs == { <<>>, << Upper(H_x_id) >> }

InitMorph ==
    /\ DefaultSessionState
    /\ proxies_pool = <<>>
    /\ block_detector = "none"
    /\ \E h \in SessionHeaderMaps :
          headers = ProfileHeaders(h, _get_profile(profile_name))
    /\ header_order \in HeaderOrderArgs
    /\ retry_backoff_base = 10
    /\ retry_jitter = 3
    /\ mh_req \in RequestHeaderMaps
    /\ mh_profile \in MorphProfiles
    /\ mh_out = [done |-> FALSE, headers |-> <<>>]
    /\ BothImportable
    /\ IdleRequestState
    /\ IdleAuxState
    /\ IdleBlockState
    /\ IdleRotState
    /\ IdleCtorState
    /\ IdleWafState
    /\ IdleScopeState

MorphCall ==
    /\ ~mh_out.done
    /\ mh_out' = [done |-> TRUE, headers |-> _morph_headers(Self, mh_req, mh_profile)]
    /\ UNCHANGED <<mh_req, mh_profile>>
    /\ UNCHANGED <<cfgVars, sessVars, reqVars, obsVars, ibVars, rotVars,
                   optVars, envVars, ctorVars, wfVars, scopeVars, auxVars>>

NextMorph == MorphCall

SpecMorph == InitMorph /\ [][NextMorph]_vars

\* ------------------------------------------------------------------------
\* SpecWaf: _check_waf_and_adapt called on responses whose headers are drawn
\* from a bounded set
\* ------------------------------------------------------------------------
\* one response header: names in several letter cases, server values with
\* and without a WAF name
WafItems ==
    { [k |-> Upper(H_cf_ray), v |-> <<"a", "b", "c", "1", "2", "3">>],
      [k |-> H_cf_ray, v |-> <<"a", "b", "c", "1", "2", "3">>],
      [k |-> TitleCase(H_server), v |-> <<"A", "p", "a", "c", "h", "e">>],
      [k |-> H_server, v |-> TitleCase(S_cloudflare)],
      [k |-> Upper(H_server), v |-> <<"A", "k", "a", "m", "a", "i", "G", "H", "o", "s", "t">>],
      [k |-> TitleCase(H_x_akamai_transformed), v |-> <<"9">>],
      [k |-> Upper(H_datadome), v |-> <<"1">>],
      [k |-> H_x_amz_cf_id, v |-> <<"x">>],
      [k |-> TitleCase(H_x_amz_cf_id), v |-> <<"x">>] }

\* the headers of a response: every name at most once, whatever its case
WafHeaderMaps ==
    { q \in SeqsUpTo(WafItems, MaxWafHeaders) :
        \A i, j \in 1..Len(q) : i # j => Lower(q[i].k) # Lower(q[j].k) }

InitWaf ==
    /\ engine \in Engines
    /\ on_block = "rotate"
    /\ max_retries = MaxRetriesBound
    /\ rotate_profiles = <<>>
    /\ proxies_pool = <<>>
    /\ block_detector = "none"
    /\ profile_name \in {DEFAULT_PROFILE, "edge_124_win11", "mobile_chrome"}
    /\ rotate_index = -1
    /\ proxy_index = -1
    /\ proxies = EmptyDict
    /\ http2 \in {"None", "False"}
    /\ sess_profile = profile_name
    /\ sess_proxies = proxies
    /\ session = NewSession
    /\ open_handles = 1
    /\ wf_headers \in WafHeaderMaps
    /\ wf_out = [done |-> FALSE, detected |-> "none"]
    /\ DefaultOptionState
    /\ BothImportable
    /\ IdleRequestState
    /\ IdleAuxState
    /\ IdleBlockState
    /\ IdleRotState
    /\ IdleCtorState
    /\ IdleMorphState
    /\ IdleScopeState

WafCall ==
    /\ ~wf_out.done
    /\ LET waf == waf_detected(wf_headers)
       IN  /\ \E s \in _check_waf_and_adapt(Self, waf) : StoreSelf(s)
           /\ wf_out' = [done |-> TRUE, detected |-> waf]
    /\ UNCHANGED wf_headers
    /\ UNCHANGED <<n_requests, n_attempts, last_outcome, last_resp, all_blocked,
                   sent_proxy, pre, rot_proxy, waf_obs, slept, held, threads>>
    /\ UNCHANGED <<cfgVars, reqVars, ibVars, rotVars,
                   optVars, envVars, ctorVars, mhVars, scopeVars, auxVars>>

NextWaf == WafCall

SpecWaf == InitWaf /\ [][NextWaf]_vars

\* ------------------------------------------------------------------------
\* SpecInit: the constructor called with arguments drawn from bounded sets,
\* with either transport library importable or not
\* ------------------------------------------------------------------------
\* profile=, fingerprint=, engine= and proxies= vary, the rest is default
ProfileEngineArgs ==
    { [DefaultArgs EXCEPT !.profile = p, !.fingerprint = f, !.engine = e, !.proxies = x] :
        p \in { Default(""), Given("edge_124_win11"), Given("no_such_profile") },
        f \in { Default(""), Given("firefox_120"), Given("bogus") },
        e \in { Default("None"), Given("curl"), Given("httpx"), Given("requests") },
        x \in { Default(NoneProxy), Given(StrProxy("p0")) } }

\* site= and the options a preset touches vary, the rest is default
PresetArgs ==
    { [DefaultArgs EXCEPT !.site = s, !.rotate_profiles = r, !.max_retries = m,
                          !.retry_backoff_base = b, !.retry_jitter = j,
                          !.http2 = h, !.header_order = o] :
        s \in { Default(<<>>), Given(S_cloudflare), Given(TitleCase(S_cloudflare)),
                Given(S_akamai) },
        r \in { Default(<<>>), Given(<<"firefox_120", "chrome_124">>) },
        m \in { Default(2), Given(1), Given(5) },
        b \in { Default(10), Given(5), Given(20) },
        j \in { Default(3), Given(1), Given(6) },
        h \in { Default("None"), Given("True"), Given("False") },
        o \in { Default(<<>>), Given(<< TitleCase(H_accept) >>) } }

CtorArgs == ProfileEngineArgs \cup PresetArgs

\* no object yet: the fields have no value a caller can see
Unconstructed ==
    /\ engine = ""
    /\ on_block = ""
    /\ max_retries = 0
    /\ rotate_profiles = <<>>
    /\ proxies_pool = <<>>
    /\ block_detector = "none"
    /\ profile_name = ""
    /\ rotate_index = -1
    /\ proxy_index = -1
    /\ proxies = EmptyDict
    /\ http2 = "None"
    /\ sess_profile = ""
    /\ sess_proxies = EmptyDict
    /\ session = NoSession
    /\ open_handles = 0
    /\ headers = <<>>
    /\ header_order = <<>>
    /\ retry_backoff_base = 0
    /\ retry_jitter = 0

InitCtor ==
    /\ Unconstructed
    /\ crequests \in BOOLEAN
    /\ httpx \in BOOLEAN
    /\ args \in CtorArgs
    /\ constructed = "no"
    /\ IdleRequestState
    /\ IdleAuxState
    /\ IdleBlockState
    /\ IdleRotState
    /\ IdleMorphState
    /\ IdleWafState
    /\ IdleScopeState

\* TLSChameleon(**args)
Construct ==
    /\ constructed = "no"
    /\ LET o == __init__(args)
       IN  /\ constructed' = IF o.exc = "" THEN "ok" ELSE o.exc
           /\ engine' = o.engine
           /\ on_block' = o.on_block
           /\ max_retries' = o.max_retries
           /\ rotate_profiles' = o.rotate_profiles
           /\ proxies_pool' = o.proxies_pool
           /\ block_detector' = o.block_detector
           /\ profile_name' = o.profile_name
           /\ rotate_index' = o.rotate_index
           /\ proxy_index' = o.proxy_index
           /\ proxies' = o.proxies
           /\ http2' = o.http2
           /\ sess_profile' = o.sess_profile
           /\ sess_proxies' = o.sess_proxies
           /\ session' = o.session
           /\ open_handles' = o.open_handles
           /\ headers' = o.headers
           /\ header_order' = o.header_order
           /\ retry_backoff_base' = o.retry_backoff_base
           /\ retry_jitter' = o.retry_jitter
    /\ UNCHANGED args
    /\ UNCHANGED <<reqVars, obsVars, ibVars, rotVars, envVars, mhVars, wfVars, scopeVars, auxVars>>

NextCtor == Construct

SpecInit == InitCtor /\ [][NextCtor]_vars

\* ------------------------------------------------------------------------
\* SpecScope: a session used in a with-block (as the module-level helpers
\* request, get, post, ... do) and closed by its caller
\* ------------------------------------------------------------------------
close_Noop(s) == s

\* TLSChameleon.close
close(s) == IF s.session.live THEN SessionClose(s) ELSE s

InitScope ==
    /\ engine \in Engines
    /\ on_block \in {"none", "both"}
    /\ max_retries \in 0..1
    /\ rotate_profiles = <<>>
    /\ proxies_pool \in { Pool(0), Pool(1) }
    /\ block_detector = "none"
    /\ profile_name = "edge_124_win11"
    /\ rotate_index = -1
    /\ proxy_index = -1
    /\ proxies = EmptyDict
    /\ http2 = "None"
    /\ sess_profile = profile_name
    /\ sess_proxies = proxies
    /\ session = NewSession
    /\ open_handles = 1
    /\ SteadyOptionState
    /\ BothImportable
    /\ IdleRequestState
    /\ IdleAuxState
    /\ IdleBlockState
    /\ IdleRotState
    /\ IdleCtorState
    /\ IdleMorphState
    /\ IdleWafState
    /\ IdleScopeState

\* TLSChameleon.__enter__
EnterScope ==
    /\ scope = "none"
    /\ pc = "idle"
    /\ scope' = "body"
    /\ UNCHANGED <<body_raised, n_close>>
    /\ UNCHANGED <<cfgVars, sessVars, reqVars, obsVars, ibVars, rotVars,
                   optVars, envVars, ctorVars, mhVars, wfVars, auxVars>>

\* the body of the with-block calls request()
BodyStartRequest == scope = "body" /\ StartRequest

\* one iteration of the retry loop of that call
BodyAttempt == scope = "body" /\ Attempt

\* TLSChameleon.__exit__: the body returned, or raised what request() raised
ExitScope ==
    /\ scope = "body"
    /\ pc = "idle"
    /\ scope' = "exited"
    /\ body_raised' = (result = "raised")
    /\ n_close' = n_close + 1
    /\ LET s == close(Self)
       IN  /\ session' = s.session
           /\ open_handles' = s.open_handles
    /\ UNCHANGED <<profile_name, rotate_index, proxy_index, proxies, http2,
                   sess_profile, sess_proxies, headers>>
    /\ UNCHANGED <<cfgVars, reqVars, obsVars, ibVars, rotVars,
                   optVars, envVars, ctorVars, mhVars, wfVars, auxVars>>

\* close() called by the caller, outside a request
CloseCall ==
    /\ pc = "idle"
    /\ scope # "body"
    /\ n_close < MaxCloseCalls
    /\ n_close' = n_close + 1
    /\ LET s == close(Self)
       IN  /\ session' = s.session
           /\ open_handles' = s.open_handles
    /\ UNCHANGED <<scope, body_raised>>
    /\ UNCHANGED <<profile_name, rotate_index, proxy_index, proxies, http2,
                   sess_profile, sess_proxies, headers>>
    /\ UNCHANGED <<cfgVars, reqVars, obsVars, ibVars, rotVars,
                   optVars, envVars, ctorVars, mhVars, wfVars, auxVars>>

NextScope ==
    \/ EnterScope
    \/ BodyStartRequest
    \/ BodyAttempt
    \/ ExitScope
    \/ CloseCall

SpecScope == InitScope /\ [][NextScope]_vars

\* ------------------------------------------------------------------------
\* SpecPeers: two independent sessions A and B of one program.  A dict is an
\* object of the heap; a session holds a reference to its headers dict, and
\* what a method writes into self.headers goes to that object.
\* ------------------------------------------------------------------------
PeerNames == {"A", "B"}
Other(x) == IF x = "A" THEN "B" ELSE "A"

\* the references: the mapping the caller passes as headers=, and the dict
\* `headers or {}` creates for a session that got None or an empty mapping
CallerRef == "caller"
OwnRef(x) == "own" \o x

\* the mapping of the caller: empty, or one header
CallerMappings == { <<>>, << [k |-> Upper(H_x_id), v |-> "1"] >> }
\* profile= of a peer
PeerProfiles == { "chrome_120", "firefox_120" }
\* user_agent= of sync_fingerprint
SyncAgents == { "", "UA-2" }

NoPeer ==
    [ built |-> FALSE, href |-> "", profile_name |-> "", rotate_index |-> -1,
      proxy_index |-> -1, proxies |-> EmptyDict, http2 |-> "None",
      sess_profile |-> "", sess_proxies |-> EmptyDict, engine |-> "",
      session |-> NoSession, open_handles |-> 0 ]

\* the session object x with its headers read through its reference
PeerSelf(x) ==
    LET q == peers[x]
    IN  [ profile_name |-> q.profile_name, rotate_index |-> q.rotate_index,
          proxy_index |-> q.proxy_index, proxies |-> q.proxies, http2 |-> q.http2,
          sess_profile |-> q.sess_profile, sess_proxies |-> q.sess_proxies,
          engine |-> q.engine, headers |-> heap[q.href], header_order |-> <<>>,
          session |-> q.session, open_handles |-> q.open_handles,
          rot_from |-> "", names |-> {}, exc |-> "" ]

\* the fields of s become session x, which holds reference ref; the headers
\* of s are what the call left in the dict behind ref
StorePeer(x, ref, s) ==
    /\ peers' = [peers EXCEPT ![x] =
                   [ built |-> TRUE, href |-> ref, profile_name |-> s.profile_name,
                     rotate_index |-> s.rotate_index, proxy_index |-> s.proxy_index,
                     proxies |-> s.proxies, http2 |-> s.http2,
                     sess_profile |-> s.sess_profile, sess_proxies |-> s.sess_proxies,
                     engine |-> s.engine, session |-> s.session,
                     open_handles |-> s.open_handles ]]
    /\ heap' = [heap EXCEPT ![ref] = s.headers]
    /\ peer_op' = [actor |-> x, n |-> peer_op.n + 1]

\* what a caller reads from session x
PeerView(x) ==
    [ headers |-> heap[peers[x].href], proxies |-> peers[x].proxies,
      profile_name |-> peers[x].profile_name, rotate_index |-> peers[x].rotate_index,
      proxy_index |-> peers[x].proxy_index ]

InitPeers ==
    /\ DefaultSessionState
    /\ proxies_pool = <<>>
    /\ block_detector = "none"
    /\ DefaultOptionState
    /\ BothImportable
    /\ IdleRequestState
    /\ IdleExportState
    /\ PlainCallState
    /\ IdleBlockState
    /\ IdleRotState
    /\ IdleCtorState
    /\ IdleMorphState
    /\ IdleWafState
    /\ IdleScopeState
    /\ \E m \in CallerMappings :
          heap = [r \in {CallerRef} \cup { OwnRef(x) : x \in PeerNames } |->
                    IF r = CallerRef THEN m ELSE <<>>]
    /\ peers = [x \in PeerNames |-> NoPeer]
    /\ peer_op = [actor |-> "", n |-> 0]

PeerFrame ==
    UNCHANGED <<cfgVars, sessVars, reqVars, obsVars, ibVars, rotVars,
                optVars, envVars, ctorVars, mhVars, wfVars, scopeVars,
                exportVars, callVars, fnVars>>

\* x = TLSChameleon(profile=p, headers=<the caller's mapping or None>):
\* self.headers = headers or {} keeps the caller's dict when it is not empty
PeerConstruct(x) ==
    /\ ~peers[x].built
    /\ \E p \in PeerProfiles, passed \in BOOLEAN :
         LET arg == IF passed THEN Given(heap[CallerRef]) ELSE Default(<<>>)
             ref == IF passed /\ heap[CallerRef] # <<>> THEN CallerRef ELSE OwnRef(x)
             o   == __init__([DefaultArgs EXCEPT !.profile = Given(p), !.headers = arg])
         IN  /\ o.exc = ""
             /\ StorePeer(x, ref, o)
    /\ PeerFrame

\* x.sync_fingerprint(user_agent=ua)
PeerSync(x) ==
    /\ peers[x].built
    /\ peer_op.n < MaxPeerOps
    /\ \E ua \in SyncAgents :
         LET r == sync_fingerprint(PeerSelf(x), ua)
         IN  /\ r.exc = ""
             /\ StorePeer(x, peers[x].href, r)
    /\ PeerFrame

\* the profile part of the block handling of x.request(): lines 439-442
PeerRotate(x) ==
    /\ peers[x].built
    /\ peer_op.n < MaxPeerOps
    /\ \E t \in _rotate_profile(PeerSelf(x)) :
         LET r == _init_session(t)
         IN  /\ r.exc = ""
             /\ StorePeer(x, peers[x].href, r)
    /\ PeerFrame

\* x.import_session(y.export_session()) for the other session y: x then
\* holds the headers dict of y
PeerImport(x) ==
    /\ peers[x].built
    /\ peers[Other(x)].built
    /\ peer_op.n < MaxPeerOps
    /\ LET r == import_session(PeerSelf(x), export_session(PeerSelf(Other(x))))
       IN  /\ r.exc = ""
           /\ StorePeer(x, peers[Other(x)].href, r)
    /\ PeerFrame

NextPeers ==
    \E x \in PeerNames :
        \/ PeerConstruct(x)
        \/ PeerSync(x)
        \/ PeerRotate(x)
        \/ PeerImport(x)

SpecPeers == InitPeers /\ [][NextPeers]_vars

\* ------------------------------------------------------------------------
\* SpecAssets: requests with mimic_assets=True; the asset threads run beside
\* the retry loop and after request() has returned
\* ------------------------------------------------------------------------
InitAssets ==
    /\ engine \in Engines
    /\ on_block \in {"none", "rotate"}
    /\ max_retries \in 0..1
    /\ rotate_profiles = <<>>
    /\ proxies_pool = <<>>
    /\ block_detector = "none"
    /\ profile_name = DEFAULT_PROFILE
    /\ rotate_index = -1
    /\ proxy_index = -1
    /\ proxies = EmptyDict
    /\ http2 = "None"
    /\ sess_profile = profile_name
    /\ sess_proxies = proxies
    /\ session = NewSession
    /\ open_handles = 1
    /\ SteadyOptionState
    /\ BothImportable
    /\ IdleRequestState
    /\ IdleOtherState
    /\ mimic_arg \in BOOLEAN
    /\ server_cookies = FALSE

\* fetch(u) of a thread returns: self.session.head gave a response
AssetEnd ==
    /\ threads.running > 0
    /\ threads' = [threads EXCEPT !.running = @ - 1, !.ended = @ + 1]
    /\ UNCHANGED <<n_requests, n_attempts, last_outcome, last_resp, all_blocked,
                   sent_proxy, pre, rot_from, names, rot_proxy, waf_obs, slept, held>>
    /\ UNCHANGED <<cfgVars, sessVars, reqVars, ibVars, rotVars, extVars>>

\* fetch(u) of a thread returns: self.session.head raised, `except: pass`
AssetFail ==
    /\ threads.running > 0
    /\ threads' = [threads EXCEPT !.running = @ - 1, !.failed = @ + 1]
    /\ UNCHANGED <<n_requests, n_attempts, last_outcome, last_resp, all_blocked,
                   sent_proxy, pre, rot_from, names, rot_proxy, waf_obs, slept, held>>
    /\ UNCHANGED <<cfgVars, sessVars, reqVars, ibVars, rotVars, extVars>>

NextAssets ==
    \/ StartRequest
    \/ Attempt
    \/ AssetEnd
    \/ AssetFail

SpecAssets == InitAssets /\ [][NextAssets]_vars

\* ------------------------------------------------------------------------
\* SpecBackoff: requests of sessions built with several retry_backoff_base
\* and retry_jitter values (tenths of a second)
\* ------------------------------------------------------------------------
BackoffBases == {0, 5, 10}
BackoffJitters == {0, 3}

InitBackoff ==
    /\ engine \in Engines
    /\ on_block \in {"rotate", "proxy"}
    /\ max_retries \in 0..MaxBackoffRetries
    /\ rotate_profiles = <<"chrome_124", "chrome_120">>
    /\ proxies_pool = Pool(1)
    /\ block_detector = "none"
    /\ profile_name = DEFAULT_PROFILE
    /\ rotate_index = -1
    /\ proxy_index = -1
    /\ proxies = EmptyDict
    /\ http2 = "None"
    /\ sess_profile = profile_name
    /\ sess_proxies = proxies
    /\ session = NewSession
    /\ open_handles = 1
    /\ headers = ProfileHeaders(<<>>, _get_profile(profile_name))
    /\ header_order = <<>>
    /\ retry_backoff_base \in BackoffBases
    /\ retry_jitter \in BackoffJitters
    /\ BothImportable
    /\ IdleRequestState
    /\ IdleOtherState
    /\ PlainCallState

NextBackoff ==
    \/ StartRequest
    \/ Attempt

SpecBackoff == InitBackoff /\ [][NextBackoff]_vars

\* ------------------------------------------------------------------------
\* The randomizers (FingerprintRandomizer.generate_variant of randomizer.py,
\* randomize_profile of fingerprint_gallery.py) and _cipher_list, each
\* called on its own.  A User-Agent string is the sequence of its
\* whitespace-separated tokens; a token is the text before its last dotted
\* number, the components of that number, and the text after it.

T(head, nums, post) == [pre |-> head, nums |-> nums, post |-> post]

\* the user_agent of six catalog entries, token by token
USER_AGENT_TOKENS ==
    [
      chrome_120_win11 |->
        << T("Mozilla/", <<5, 0>>, ""),
          T("(Windows", <<>>, ""),
          T("NT", <<>>, ""),
          T("", <<10, 0>>, ";"),
          T("Win", <<64>>, ";"),
          T("x", <<64>>, ")"),
          T("AppleWebKit/", <<537, 36>>, ""),
          T("(KHTML,", <<>>, ""),
          T("like", <<>>, ""),
          T("Gecko)", <<>>, ""),
          T("Chrome/", <<120, 0, 0, 0>>, ""),
          T("Safari/", <<537, 36>>, "") >>,
      chrome_android_120 |->
        << T("Mozilla/", <<5, 0>>, ""),
          T("(Linux;", <<>>, ""),
          T("Android", <<>>, ""),
          T("", <<14>>, ";"),
          T("SM-S", <<918>>, "B)"),
          T("AppleWebKit/", <<537, 36>>, ""),
          T("(KHTML,", <<>>, ""),
          T("like", <<>>, ""),
          T("Gecko)", <<>>, ""),
          T("Chrome/", <<120, 0, 6099, 144>>, ""),
          T("Mobile", <<>>, ""),
          T("Safari/", <<537, 36>>, "") >>,
      edge_120_win11 |->
        << T("Mozilla/", <<5, 0>>, ""),
          T("(Windows", <<>>, ""),
          T("NT", <<>>, ""),
          T("", <<10, 0>>, ";"),
          T("Win", <<64>>, ";"),
          T("x", <<64>>, ")"),
          T("AppleWebKit/", <<537, 36>>, ""),
          T("(KHTML,", <<>>, ""),
          T("like", <<>>, ""),
          T("Gecko)", <<>>, ""),
          T("Chrome/", <<120, 0, 0, 0>>, ""),
          T("Safari/", <<537, 36>>, ""),
          T("Edg/", <<120, 0, 0, 0>>, "") >>,
      firefox_120_win11 |->
        << T("Mozilla/", <<5, 0>>, ""),
          T("(Windows", <<>>, ""),
          T("NT", <<>>, ""),
          T("", <<10, 0>>, ";"),
          T("Win", <<64>>, ";"),
          T("x", <<64>>, ";"),
          T("rv:", <<120, 0>>, ")"),
          T("Gecko/", <<20100101>>, ""),
          T("Firefox/", <<120, 0>>, "") >>,
      safari_macos14 |->
        << T("Mozilla/", <<5, 0>>, ""),
          T("(Macintosh;", <<>>, ""),
          T("Intel", <<>>, ""),
          T("Mac", <<>>, ""),
          T("OS", <<>>, ""),
          T("X", <<>>, ""),
          T("14_", <<0>>, ")"),
          T("AppleWebKit/", <<605, 1, 15>>, ""),
          T("(KHTML,", <<>>, ""),
          T("like", <<>>, ""),
          T("Gecko)", <<>>, ""),
          T("Version/", <<17, 0>>, ""),
          T("Safari/", <<605, 1, 15>>, "") >>,
      safari_ios17 |->
        << T("Mozilla/", <<5, 0>>, ""),
          T("(iPhone;", <<>>, ""),
          T("CPU", <<>>, ""),
          T("iPhone", <<>>, ""),
          T("OS", <<>>, ""),
          T("17_", <<0>>, ""),
          T("like", <<>>, ""),
          T("Mac", <<>>, ""),
          T("OS", <<>>, ""),
          T("X)", <<>>, ""),
          T("AppleWebKit/", <<605, 1, 15>>, ""),
          T("(KHTML,", <<>>, ""),
          T("like", <<>>, ""),
          T("Gecko)", <<>>, ""),
          T("Version/", <<17, 0>>, ""),
          T("Mobile/15E", <<148>>, ""),
          T("Safari/", <<604, 1>>, "") >> ]

\* random.randint(-50, 100) and random.randint(-20, 50) of
\* bump_chrome_version: both ends and no change
BuildDeltas == {-50, 0, 100}

PatchDeltas == {-20, 0, 50}

\* bump_firefox_version: random.random() < 0.3 and then random.randint(0, 1)
MinorDeltas == {0, 1}

\* random.choice([-1, 0, 0, 1, 1, 2]) of bump_version
BumpChoices == {-1, 0, 1, 2}

\* r'Chrome/(\d+)\.(\d+)\.(\d+)\.(\d+)' matches in this token
IsChromeVersion(tok) == tok.pre = "Chrome/" /\ Len(tok.nums) >= 4

\* r'Firefox/(\d+)\.(\d+)' matches in this token
IsFirefoxVersion(tok) == tok.pre = "Firefox/" /\ Len(tok.nums) >= 2

bump_chrome_version(tok) ==
    { [tok EXCEPT !.nums[3] = Max2(0, @ + b), !.nums[4] = Max2(0, @ + p)] :
        b \in BuildDeltas, p \in PatchDeltas }

bump_firefox_version(tok) ==
    { [tok EXCEPT !.nums[2] = Max2(0, @ + d)] : d \in MinorDeltas }

\* the two re.sub calls of _randomize_user_agent on one token
SubToken(tok) ==
    IF IsChromeVersion(tok) THEN bump_chrome_version(tok)
    ELSE IF IsFirefoxVersion(tok) THEN bump_firefox_version(tok)
    ELSE {tok}

RECURSIVE SubTokens(_)
SubTokens(ua) ==
    IF ua = <<>> THEN { <<>> }
    ELSE { <<t>> \o r : t \in SubToken(Head(ua)), r \in SubTokens(Tail(ua)) }

_randomize_user_agent(ua) == IF ua = <<>> THEN { ua } ELSE SubTokens(ua)

\* r'\.(\d+)(?=\s|$)' matches at the end of this token
EndsInDotNumber(tok) == tok.post = "" /\ Len(tok.nums) >= 2

\* re.sub(..., count=1): the first match only (0 if there is none)
FirstDotNumber(ua) ==
    IF \E i \in 1..Len(ua) : EndsInDotNumber(ua[i])
    THEN CHOOSE i \in 1..Len(ua) :
            /\ EndsInDotNumber(ua[i])
            /\ \A j \in 1..(i - 1) : ~EndsInDotNumber(ua[j])
    ELSE 0

bump_version(ua) ==
    LET i == FirstDotNumber(ua)
    IN  IF i = 0 THEN { ua }
        ELSE { [ua EXCEPT ![i].nums[Len(ua[i].nums)] = Max2(0, @ + d)] : d \in BumpChoices }

\* exts[i], exts[i + 1] = exts[i + 1], exts[i] (i counted from 1 here)
SwapAt(exts, i) == [exts EXCEPT ![i] = exts[i + 1], ![i + 1] = exts[i]]

\* for _ in range(swaps): i = random.randint(0, len(exts) - 2); swap
RECURSIVE Swapped(_, _)
Swapped(exts, swaps) ==
    IF swaps <= 0 THEN { exts }
    ELSE UNION { Swapped(SwapAt(exts, i), swaps - 1) : i \in 1..(Len(exts) - 1) }

_randomize_extensions_Sorted(extensions, variance) ==
    { SortSeq(extensions, LAMBDA a, b : a < b) }

_randomize_extensions(extensions, variance) ==
    IF extensions = <<>> \/ variance <= 0 THEN { extensions }
    ELSE Swapped(extensions, Min2(variance, Len(extensions) - 1))

\* random.shuffle on a copy: every order
Shuffled(list) ==
    { [i \in 1..Len(list) |-> list[p[i]]] : p \in Permutations(1..Len(list)) }

_randomize_ciphers(ciphers) == IF ciphers = <<>> THEN { ciphers } ELSE Shuffled(ciphers)

\* profile.get("randomization", {}) with the defaults of its .get calls
RandomizationOf(profile) ==
    IF "randomization" \in profile.keys THEN profile.randomization ELSE NoRandomization

\* generate_variant: the base profile object after the call and the variant
generate_variant(base_profile) ==
    LET cfg  == RandomizationOf(base_profile)
        keys == base_profile.keys
        uas  == IF cfg.ua_minor_variance
                THEN _randomize_user_agent(base_profile.user_agent)
                ELSE { base_profile.user_agent }
        exts == IF cfg.extension_variance > 0 /\ "extensions" \in keys
                THEN _randomize_extensions(base_profile.extensions, cfg.extension_variance)
                ELSE { base_profile.extensions }
        cs   == IF cfg.cipher_shuffle /\ "ciphers" \in keys
                THEN _randomize_ciphers(base_profile.ciphers)
                ELSE { base_profile.ciphers }
    IN  { [ base |-> base_profile,
            variant |-> [base_profile EXCEPT
                           !.user_agent = u, !.extensions = e, !.ciphers = c,
                           !.keys = IF cfg.ua_minor_variance
                                    THEN @ \cup {"user_agent", "sec_ch_ua"} ELSE @] ] :
          u \in uas, e \in exts, c \in cs }

\* randomize_profile: the profile object after the call and the variant
randomize_profile(profile) ==
    LET randomization == RandomizationOf(profile)
        uas  == IF randomization.ua_minor_variance
                THEN bump_version(profile.user_agent)
                ELSE { profile.user_agent }
        exts == IF randomization.extension_variance > 0 /\ "extensions" \in profile.keys
                THEN Swapped(profile.extensions,
                             Min2(randomization.extension_variance, Len(profile.extensions) - 1))
                ELSE { profile.extensions }
    IN  { [ base |-> profile,
            variant |-> [profile EXCEPT
                           !.user_agent = u, !.extensions = e,
                           !.keys = IF randomization.ua_minor_variance
                                    THEN @ \cup {"user_agent"} ELSE @] ] :
          u \in uas, e \in exts }

\* ":".join(ciphers): the names with a ":" between two of them
RECURSIVE JoinColon(_)
JoinColon(ciphers) ==
    IF Len(ciphers) <= 1 THEN ciphers
    ELSE <<Head(ciphers), ":">> \o JoinColon(Tail(ciphers))

_cipher_list_Reversed(profile, randomize) ==
    { [none |-> FALSE,
       str |-> JoinColon([i \in 1..Len(profile.tls12_ciphers) |->
                            profile.tls12_ciphers[Len(profile.tls12_ciphers) + 1 - i]])] }

\* _cipher_list: None, or the joined names of tls12_ciphers
_cipher_list(profile, randomize) ==
    LET ciphers == IF "tls12_ciphers" \in profile.keys THEN profile.tls12_ciphers ELSE <<>>
    IN  IF ciphers = <<>> THEN { [none |-> TRUE, str |-> <<>>] }
        ELSE { [none |-> FALSE, str |-> JoinColon(c)] :
                 c \in IF randomize THEN Shuffled(ciphers) ELSE { ciphers } }

\* the catalog entries given to the randomizers
RandomizedNames == DOMAIN USER_AGENT_TOKENS

CatalogProfile(n) == [GALLERY_DATA[n] EXCEPT !.user_agent = USER_AGENT_TOKENS[n]]

\* profiles a caller makes up: short lists, every policy
ProfileKeys == {"user_agent", "header_case", "ciphers", "extensions", "randomization"}

MadeUpAgents ==
    { <<>>,
      << T("Wget", <<>>, "") >>,
      << T("Mozilla/", <<5, 0>>, ""), T("Chrome/", <<99, 0, 10, 5>>, "") >> }

ExtensionLists ==
    { SubSeq(CHROME_extensions, 1, n) : n \in 0..MaxExtLen } \cup { <<10, 10, 11>> }

CipherLists == { SubSeq(LEGACY_tls12_ciphers, 1, n) : n \in {0, 1, MaxShuffleLen} }

MadeUpProfile(ua, exts, ciphers, randomization, keys) ==
    [ user_agent |-> ua, sec_ch_ua |-> "", sec_ch_ua_platform |-> "", sec_ch_ua_mobile |-> "",
      header_case |-> "lower", ciphers |-> ciphers, tls12_ciphers |-> ciphers,
      extensions |-> exts, randomization |-> randomization, keys |-> keys ]

MadeUpProfiles ==
    { MadeUpProfile(ua, e, c,
                    [ua_minor_variance |-> u, extension_variance |-> v, cipher_shuffle |-> s],
                    ProfileKeys \cup {"tls12_ciphers"}) :
        ua \in MadeUpAgents, e \in ExtensionLists, c \in CipherLists,
        u \in BOOLEAN, v \in 0..MaxVariance, s \in BOOLEAN }
    \cup { MadeUpProfile(<<>>, <<>>, <<>>, NoRandomization, {"header_case"}) }

RandomizerInputs == { CatalogProfile(n) : n \in RandomizedNames } \cup MadeUpProfiles

\* what _init_session gives to _cipher_list: _get_profile of a name
CipherListInputs ==
    { _get_profile(n) : n \in RandomizedNames \cup PROFILES \cup {"", "netscape_4"} }
    \cup { [p EXCEPT !.user_agent = ""] :
             p \in { q \in MadeUpProfiles :
                       q.randomization = NoRandomization /\ q.user_agent = <<>> } }

InitVariant ==
    /\ DefaultSessionState
    /\ proxies_pool = <<>>
    /\ block_detector = "none"
    /\ DefaultOptionState
    /\ BothImportable
    /\ IdleRequestState
    /\ IdleOtherState
    /\ PlainCallState

FnFrame ==
    UNCHANGED <<cfgVars, sessVars, reqVars, obsVars, ibVars, rotVars,
                optVars, envVars, ctorVars, mhVars, wfVars, scopeVars,
                exportVars, peerVars, callVars>>

\* FingerprintRandomizer(p).generate_variant()
GenerateVariantCall ==
    /\ fcall.fn = "none"
    /\ \E p \in RandomizerInputs : \E r \in generate_variant(p) :
         fcall' = [fn |-> "generate_variant", input |-> p, randomize |-> FALSE,
                   after |-> r.base, variant |-> r.variant, out |-> <<>>]
    /\ FnFrame

\* randomize_profile(p)
RandomizeProfileCall ==
    /\ fcall.fn = "none"
    /\ \E p \in RandomizerInputs : \E r \in randomize_profile(p) :
         fcall' = [fn |-> "randomize_profile", input |-> p, randomize |-> FALSE,
                   after |-> r.base, variant |-> r.variant, out |-> <<>>]
    /\ FnFrame

\* _cipher_list(p, randomize); every order of a shuffle is drawn for lists
\* of at most MaxShuffleLen names
CipherListCall ==
    /\ fcall.fn = "none"
    /\ \E p \in CipherListInputs, randomize \in BOOLEAN :
         /\ randomize => Len(p.tls12_ciphers) <= MaxShuffleLen
         /\ \E r \in _cipher_list(p, randomize) :
              fcall' = [fn |-> "_cipher_list", input |-> p, randomize |-> randomize,
                        after |-> p, variant |-> p, out |-> r]
    /\ FnFrame

\* the names _get_profile is called with: the catalog's, none, an unknown one
ProfileNameArgs == FINGERPRINT_GALLERY \cup PROFILES \cup {"", "netscape_4"}

\* _get_profile(name)
GetProfileCall ==
    /\ fcall.fn = "none"
    /\ \E n \in ProfileNameArgs :
         fcall' = [fn |-> "_get_profile", input |-> n, randomize |-> FALSE,
                   after |-> n, variant |-> n, out |-> _get_profile(n)]
    /\ FnFrame

NextVariant ==
    \/ GenerateVariantCall
    \/ RandomizeProfileCall
    \/ CipherListCall
    \/ GetProfileCall

SpecVariant == InitVariant /\ [][NextVariant]_vars

\* ------------------------------------------------------------------------
\* Cookies over several requests of one client object: the server sets a
\* cookie with every response, and sync_fingerprint may be called between
\* two requests
InitCookies ==
    /\ engine \in Engines
    /\ on_block \in {"none", "rotate"}
    /\ max_retries \in 0..1
    /\ rotate_profiles = <<>>
    /\ proxies_pool = <<>>
    /\ block_detector = "none"
    /\ profile_name = DEFAULT_PROFILE
    /\ rotate_index = -1
    /\ proxy_index = -1
    /\ proxies = EmptyDict
    /\ http2 = "None"
    /\ sess_profile = profile_name
    /\ sess_proxies = proxies
    /\ session = NewSession
    /\ open_handles = 1
    /\ SteadyOptionState
    /\ BothImportable
    /\ IdleRequestState
    /\ IdleOtherState
    /\ mimic_arg = FALSE
    /\ server_cookies = TRUE

\* self.sync_fingerprint(user_agent=ua) between two requests
SyncFingerprintCall ==
    /\ pc = "idle"
    /\ \E ua \in SyncAgents : StoreSelf(sync_fingerprint(Self, ua))
    /\ UNCHANGED <<n_requests, n_attempts, last_outcome, last_resp, all_blocked, sent_proxy,
                   pre, rot_proxy, waf_obs, slept, held, threads>>
    /\ UNCHANGED <<cfgVars, reqVars, ibVars, rotVars, extVars>>

NextCookies ==
    \/ StartRequest
    \/ Attempt
    \/ SyncFingerprintCall

SpecCookies == InitCookies /\ [][NextCookies]_vars

\* ------------------------------------------------------------------------
\* submit_form: the page is fetched by self.get (the request loop above),
\* then its forms are looked up and one of them is submitted by a second
\* request.  A form is its action, its method (a text) and its inputs.
POST_text == <<"P", "O", "S", "T">>

LoginForm ==
    [ action |-> "/login", method |-> <<"p", "o", "s", "t">>,
      inputs |-> << [k |-> "u", v |-> "1"], [k |-> "t", v |-> "tok"] >> ]

\* a form without method= and action=: method "GET", action None ("")
SearchForm ==
    [ action |-> "", method |-> <<"G", "E", "T">>, inputs |-> << [k |-> "q", v |-> ""] >> ]

\* what the regular expressions of get_forms find in a page with n forms
FormsFound(n) == [i \in 1..n |-> IF i % 2 = 1 THEN LoginForm ELSE SearchForm]

Pages == { FormsFound(n) : n \in 0..MaxForms }

Selectors == (0 - (MaxForms + 1))..(MaxForms + 1)

FormData == { <<>>, << [k |-> "u", v |-> "9"] >> }

\* Magnet.get_forms: the list is built but the function has no return
\* statement, so the caller gets None
get_forms(found) == [none |-> TRUE, items |-> <<>>]

NoSubmit(outcome) == [outcome |-> outcome, method |-> "", payload |-> <<>>]

\* submit_form after self.get ended with (how, resp)
submit_form(how, resp, found, form_selector, data) ==
    IF how = "raised" THEN NoSubmit("raised_by_get")
    ELSE IF ~resp.present THEN NoSubmit("None")
    ELSE LET forms == get_forms(found)
         IN  IF forms.none \/ forms.items = <<>> THEN NoSubmit("ValueError_no_forms")
             ELSE IF form_selector >= Len(forms.items) THEN NoSubmit("ValueError_range")
             ELSE IF form_selector < 0 - Len(forms.items) THEN NoSubmit("IndexError")
             ELSE LET target_form == forms.items[IF form_selector >= 0
                                                 THEN form_selector + 1
                                                 ELSE Len(forms.items) + form_selector + 1]
                      payload == DictUpdate(target_form.inputs, data)
                      method  == Upper(target_form.method)
                  IN  [ outcome |-> "submitted",
                        method |-> IF method = POST_text THEN "POST" ELSE "GET",
                        payload |-> payload ]

InitForm ==
    /\ engine \in Engines
    /\ on_block \in {"none", "rotate"}
    /\ max_retries \in 0..1
    /\ rotate_profiles = <<"chrome_124">>
    /\ proxies_pool = <<>>
    /\ block_detector = "none"
    /\ profile_name = DEFAULT_PROFILE
    /\ rotate_index = -1
    /\ proxy_index = -1
    /\ proxies = EmptyDict
    /\ http2 = "None"
    /\ sess_profile = profile_name
    /\ sess_proxies = proxies
    /\ session = NewSession
    /\ open_handles = 1
    /\ SteadyOptionState
    /\ BothImportable
    /\ IdleRequestState
    /\ IdleOtherState
    /\ PlainCallState

\* the rest of submit_form once its self.get has ended: lines 767-794
SubmitFormStep ==
    /\ pc = "idle"
    /\ result # "none"
    /\ fcall.fn = "none"
    /\ \E found \in Pages, form_selector \in Selectors, data \in FormData :
         LET r == submit_form(result, ret, found, form_selector, data)
         IN  /\ fcall' = [fn |-> "submit_form", fetched |-> ret.present,
                          found |-> found, form_selector |-> form_selector, data |-> data,
                          outcome |-> r.outcome, method |-> r.method, payload |-> r.payload]
             /\ IF r.outcome = "submitted"
                THEN BeginRequest
                ELSE UNCHANGED <<reqVars, obsVars>>
    /\ UNCHANGED <<cfgVars, sessVars, ibVars, rotVars, optVars, envVars, ctorVars, mhVars,
                   wfVars, scopeVars, exportVars, peerVars, callVars>>

NextForm ==
    \/ StartRequest
    \/ Attempt
    \/ SubmitFormStep

SpecForm == InitForm /\ [][NextForm]_vars

\* ========================================================================
\* Properties
\* ========================================================================
Finished == pc = "idle" /\ result # "none"

Max(a, b) == IF a >= b THEN a ELSE b

\* the classification request() gave the returned response
RetBlocked == ret.present /\ _is_block(ret, block_detector).blocked

\* C1: with max_retries = N >= 0 and a policy other than "none", when every
\* attempt gave a response classified as blocked, request() made exactly N+1
\* attempts and returned the last response without raising.
C1_AllBlockedReturnsLast ==
    (Finished /\ all_blocked /\ on_block # "none" /\ max_retries >= 0)
        => /\ result = "returned"
           /\ n_attempts = max_retries + 1
           /\ ret = last_resp

\* C2: whenever the last attempt of request() ended in a transport
\* exception, request() raised that exception instead of returning.
C2_FinalErrorPropagates ==
    (Finished /\ last_outcome = "transport_exc")
        => (result = "raised" /\ err = "transport")

\* C3 (as stated): request() makes at most max_retries+1 attempts, also for
\* max_retries <= 0; it goes on only after a blocked attempt, never with
\* policy "none", never once the attempt counter has reached max_retries.
C3_AtMostRetriesPlusOne ==
    /\ n_attempts <= max_retries + 1
    /\ (on_block = "none" => n_attempts <= 1)
    /\ (pc = "loop" /\ n_attempts > 0)
          => /\ last_outcome # "resp" \/ _is_block(last_resp, block_detector).blocked
             /\ attempt <= max_retries

\* C3 (amended): request() terminates after at most max(max_retries, 0) + 1
\* attempts: the attempt counter counts the attempts made, grows by one with
\* every iteration that goes on, and never exceeds max_retries; the loop goes
\* on only after a blocked attempt and never with policy "none".
C3_BoundedAttempts ==
    /\ [](/\ n_attempts <= Max(max_retries, 0) + 1
          /\ (on_block = "none" => n_attempts <= 1)
          /\ (pc = "loop" => attempt = n_attempts /\ attempt <= Max(max_retries, 0))
          /\ (pc = "loop" /\ n_attempts > 0)
                => (last_outcome # "resp" \/ _is_block(last_resp, block_detector).blocked)
          /\ (Finished /\ result = "returned" /\ ~RetBlocked /\ ret.present)
                => ret = last_resp)
    /\ [][(pc = "loop" /\ pc' = "loop") => attempt' = attempt + 1]_vars

C3_Witness ==
    /\ Finished
    /\ result = "returned"
    /\ max_retries = 2
    /\ n_attempts = 3

\* C4: a transport exception on an attempt that is not the last permitted
\* one is not raised; the retry loop goes on to another attempt as after a
\* blocked response.
C4_ExceptionRetried ==
    [][(/\ pc = "loop"
        /\ n_attempts' = n_attempts + 1
        /\ last_outcome' = "transport_exc"
        /\ attempt < max_retries
        /\ on_block # "none")
          => (pc' = "loop" /\ attempt' = attempt + 1 /\ result' = "none")]_vars

\* the session state the frame claim of C5 names
Frame ==
    [profile_name |-> profile_name, rotate_index |-> rotate_index,
     proxy_index |-> proxy_index, proxies |-> proxies]

\* C5 (as stated): with policy "none" a blocked response is returned and the
\* active profile, both cursors and the sticky proxy are as before the call.
C5_NoneLeavesSessionUnchanged ==
    (Finished /\ on_block = "none" /\ result = "returned" /\ RetBlocked)
        => Frame = pre

\* C5 (amended): with policy "none" a blocked response is returned after one
\* attempt; the rotation cursor and the sticky proxy are unchanged; the proxy
\* cursor is unchanged, or went from -1 to 0 with a non-empty pool; the
\* active profile is unchanged, or the response carries the Cloudflare
\* signature, the profile was not Chrome-family and is now a legacy Chrome one.
C5_NoneFrame ==
    (Finished /\ on_block = "none" /\ result = "returned" /\ RetBlocked)
        => /\ n_attempts = 1
           /\ rotate_index = pre.rotate_index
           /\ proxies = pre.proxies
           /\ \/ proxy_index = pre.proxy_index
              \/ pre.proxy_index = -1 /\ proxies_pool # <<>> /\ proxy_index = 0
           /\ \/ profile_name = pre.profile_name
              \/ /\ ret.waf = "cloudflare"
                 /\ pre.profile_name \notin {"chrome_120", "chrome_124"}
                 /\ profile_name \in {"chrome_120", "chrome_124"}

C5_Witness ==
    /\ Finished /\ on_block = "none" /\ result = "returned" /\ RetBlocked
    /\ proxy_index # pre.proxy_index
    /\ profile_name # pre.profile_name

\* C6: after a block-driven proxy rotation every later attempt on the
\* session is sent through the selected proxy pool[proxy_cursor], until the
\* next rotation, and the rotation raises no error.
C6_StickyProxy ==
    [][/\ (n_attempts' = n_attempts + 1 /\ rot_proxy # "")
            => sent_proxy' = rot_proxy
       /\ (on_block \in {"proxy", "both"} /\ proxies_pool # <<>>)
            => err' # "ValueError"]_vars

\* C7: from a cursor of -1, the k-th successive _rotate_proxy selects
\* pool[(k-1) mod L] (0-based), for a pool of length L >= 1.
C7_RoundRobin ==
    (rot_fresh /\ rot_k >= 1 /\ proxies_pool # <<>>)
        => /\ proxy_index = (rot_k - 1) % Len(proxies_pool)
           /\ _current_proxy(Self).val.url
                 = proxies_pool[((rot_k - 1) % Len(proxies_pool)) + 1]

C7_Witness ==
    /\ rot_fresh
    /\ Len(proxies_pool) = 3
    /\ rot_k = 4
    /\ proxy_index = 0

\* C8: a block-driven profile rotation takes the next entry of the rotation
\* list when there is one; without a list it chooses among all catalog
\* profiles except the current one.
C8_RotationCandidates ==
    rot_from # ""
        => IF rotate_profiles # <<>>
           THEN profile_name = rotate_profiles[rotate_index + 1]
           ELSE /\ names = CatalogNames \ {rot_from}
                /\ profile_name \in names

\* the bodies of the model that hold a block indicator, by inspection
HasIndicator(resp) == resp.tk = "str" /\ resp.text \in IndicatorBodies

\* C9: without a block predicate _is_block is true for an absent response,
\* for status 403, 429 and 1020 whatever the body, and for a body holding a
\* block indicator in any letter case; it is false for status 200 with a
\* body holding none.
C9_BuiltinRules ==
    (ib_out.done /\ block_detector = "none")
        => /\ ~ib_out.exc
           /\ ~ib_resp.present => ib_out.blocked
           /\ (ib_resp.present /\ ib_resp.status \in {403, 429, 1020}) => ib_out.blocked
           /\ (ib_resp.present /\ HasIndicator(ib_resp)) => ib_out.blocked
           /\ (ib_resp.present /\ ib_resp.status = 200 /\ ~HasIndicator(ib_resp))
                 => ~ib_out.blocked

C9_Witness ==
    /\ ib_out.done /\ block_detector = "none"
    /\ ib_resp.present /\ ib_resp.status = 200
    /\ ib_resp.text = <<"A", "c", "c", "e", "s", "s", " ", "D", "e", "n", "i", "e", "d">>
    /\ ib_out.blocked

\* C10: with a block predicate and a response present, the predicate's
\* answer is the classification whatever the status and body; when the
\* predicate raises, no exception leaves _is_block and the classification is
\* the one of the status and body rules.
C10_PredicateAuthoritative ==
    (ib_out.done /\ ib_resp.present /\ block_detector # "none")
        => /\ ~ib_out.exc
           /\ block_detector = "true" => ib_out.blocked
           /\ block_detector = "false" => ~ib_out.blocked
           /\ block_detector = "raise"
                 => (ib_out.blocked <=> (\/ ib_resp.status \in {403, 429, 1020}
                                         \/ HasIndicator(ib_resp)))

C10_Witness ==
    /\ ib_out.done /\ ib_resp.present
    /\ block_detector = "raise"
    /\ ib_resp.status = 429
    /\ ib_out.blocked

\* the header names of a dict, lower-cased
LowerNames(d) == { Lower(d[i].k) : i \in 1..Len(d) }

\* C11: the morphed map holds exactly the union of session and request
\* header names compared case-insensitively, one entry per name, each name
\* being an input name rewritten by the case mode, and a name the request
\* gives carries the request's value; for the modes lower, title and as-is.
C11_MorphUnion ==
    mh_out.done
        => LET out  == mh_out.headers
               mode == mh_profile.header_case
           IN  /\ LowerNames(out) = LowerNames(headers) \cup LowerNames(mh_req)
               /\ \A i, j \in 1..Len(out) : i # j => Lower(out[i].k) # Lower(out[j].k)
               /\ \A i \in 1..Len(out) :
                     \E d \in {headers, mh_req} : \E j \in 1..Len(d) :
                        out[i].k = case_key(mode, d[j].k)
               /\ \A i \in 1..Len(out) : \A j \in 1..Len(mh_req) :
                     Lower(mh_req[j].k) = Lower(out[i].k) => out[i].v = mh_req[j].v

\* the order list _morph_headers is to use: the session's, else the profile's
EffectiveOrder == IF header_order # <<>> THEN header_order ELSE mh_profile.header_order

\* the first position of name k in a list of names, compared case-insensitively
\* (0 when the list does not have it)
Rank(k, list) ==
    IF \E e \in 1..Len(list) : Lower(list[e]) = Lower(k)
    THEN CHOOSE e \in 1..Len(list) :
            /\ Lower(list[e]) = Lower(k)
            /\ \A f \in 1..(e - 1) : Lower(list[f]) # Lower(k)
    ELSE 0

Carries(name) == \E i \in 1..Len(wf_headers) : Lower(wf_headers[i].k) = name

\* its server header holds x, in any letter case
ServerSays(x) ==
    \E i \in 1..Len(wf_headers) :
        /\ Lower(wf_headers[i].k) = H_server
        /\ Contains(Lower(wf_headers[i].v), x)

\* C13: header names and the server value are read case-insensitively; the
\* signature is cloudflare for a cf-ray header or "cloudflare" in server,
\* else akamai for x-akamai-transformed or "akamai" in server, else datadome
\* for a datadome header, else cloudfront for x-amz-cf-id, else none; a
\* signature other than cloudflare leaves the session as it was.
C13_WafDetection ==
    /\ [](wf_out.done
            => wf_out.detected =
                 IF Carries(H_cf_ray) \/ ServerSays(S_cloudflare) THEN "cloudflare"
                 ELSE IF Carries(H_x_akamai_transformed) \/ ServerSays(S_akamai) THEN "akamai"
                 ELSE IF Carries(H_datadome) THEN "datadome"
                 ELSE IF Carries(H_x_amz_cf_id) THEN "cloudfront"
                 ELSE "none")
    /\ [][(~wf_out.done /\ wf_out'.done /\ wf_out'.detected # "cloudflare")
            => UNCHANGED <<cfgVars, sessVars, optVars>>]_vars

C13_Witness ==
    /\ wf_out.done
    /\ wf_out.detected = "cloudflare"
    /\ \E i \in 1..Len(wf_headers) : wf_headers[i].k = Upper(H_cf_ray)
    /\ ServerSays(S_akamai)

\* C14: after every response of request() that carries the Cloudflare
\* signature, blocked or not and whatever on_block is, HTTP/2 is enabled on
\* the session; a profile that was not Chrome-family has been replaced by a
\* Chrome-family one and the transport re-initialised for it; a Chrome-family
\* profile is left as it was.
C14_CloudflareAdaptation ==
    (waf_obs.seen /\ waf_obs.waf = "cloudflare")
        => /\ waf_obs.http2 = "True"
           /\ http2 = "True"
           /\ IF ContainsChrome(waf_obs.before)
              THEN waf_obs.profile_name = waf_obs.before
              ELSE /\ ContainsChrome(waf_obs.profile_name)
                   /\ waf_obs.sess_profile = waf_obs.profile_name

C14_Witness ==
    /\ Finished /\ result = "returned" /\ ~RetBlocked
    /\ on_block = "none"
    /\ waf_obs.seen /\ waf_obs.waf = "cloudflare"
    /\ waf_obs.before = "edge_124_win11"
    /\ profile_name \in {"chrome_120", "chrome_124"}
    /\ sess_profile = profile_name

\* the session was constructed with the site preset "cloudflare"
CloudflarePreset == constructed = "ok" /\ Lower(args.site.val) = S_cloudflare

\* C15: with site="cloudflare", each of rotate_profiles, max_retries,
\* retry_backoff_base, retry_jitter, http2 and header_order that the caller
\* passed keeps exactly the caller's value after construction.
C15_PresetKeepsExplicit ==
    CloudflarePreset
        => /\ args.rotate_profiles.given => rotate_profiles = args.rotate_profiles.val
           /\ args.max_retries.given => max_retries = args.max_retries.val
           /\ args.retry_backoff_base.given => retry_backoff_base = args.retry_backoff_base.val
           /\ args.retry_jitter.given => retry_jitter = args.retry_jitter.val
           /\ args.http2.given => http2 = args.http2.val
           /\ args.header_order.given => header_order = args.header_order.val

\* C16: with site="cloudflare" and no rotation list from the caller, the
\* session has a non-empty rotation list, max_retries >= 3, a backoff base of
\* at most 0.8 s, a jitter of at least 0.4 s, HTTP/2 enabled when the caller
\* gave no http2 and a header-order list when the caller gave none.
C16_PresetFloors ==
    (CloudflarePreset /\ ~args.rotate_profiles.given)
        => /\ rotate_profiles # <<>>
           /\ max_retries >= 3
           /\ retry_backoff_base <= 8
           /\ retry_jitter >= 4
           /\ ~args.http2.given => http2 = "True"
           /\ ~args.header_order.given => header_order # <<>>

C16_Witness ==
    /\ CloudflarePreset
    /\ ~args.rotate_profiles.given /\ ~args.http2.given /\ ~args.header_order.given
    /\ args.max_retries.val = 1 /\ max_retries = 3
    /\ args.retry_backoff_base.val = 20 /\ retry_backoff_base = 8
    /\ args.retry_jitter.val = 1 /\ retry_jitter = 4
    /\ Len(rotate_profiles) = 3
    /\ header_order = CloudflareHeaderOrder

\* the profile name the caller asked for: profile=, else fingerprint=
RequestedName == IF args.profile.val # "" THEN args.profile.val ELSE args.fingerprint.val

\* C17: a constructor call that names a profile the catalog does not have
\* ends as it would for a known name (it fails only when no transport
\* library is importable), and the active profile is chrome_120.
C17_UnknownProfileFallsBack ==
    (constructed # "no" /\ RequestedName # "" /\ RequestedName \notin CatalogNames)
        => /\ profile_name = "chrome_120"
           /\ constructed = "ok" <=> (crequests \/ httpx)

C17_Witness ==
    /\ constructed = "ok"
    /\ args.profile.val = "no_such_profile"
    /\ args.fingerprint.val = "firefox_120"
    /\ profile_name = "chrome_120"
    /\ sess_profile = "chrome_120"

\* C18: the constructor raises exactly when neither curl_cffi nor httpx is
\* importable, whatever engine was asked for; otherwise the engine it
\* selected is an importable one.
C18_TransportUnavailable ==
    constructed # "no"
        => /\ (~crequests /\ ~httpx) => constructed = "RuntimeError"
           /\ (crequests \/ httpx)
                 => /\ constructed = "ok"
                    /\ engine = "curl" => crequests
                    /\ engine = "httpx" => httpx
                    /\ engine \in {"curl", "httpx"}
                    /\ session.live

C18_Witness ==
    /\ constructed = "ok"
    /\ args.engine.val = "curl"
    /\ ~crequests /\ httpx
    /\ engine = "httpx"

\* C19: when the with-block has been left, by return or by an exception of
\* the body, the transport the session holds at that moment has been closed.
C19_ScopeCloses ==
    /\ [](scope = "exited" => (session.live /\ session.closes >= 1))
    /\ [][(scope = "body" /\ scope' = "exited")
            => (session'.closes = session.closes + 1 /\ open_handles' = 0)]_vars

C19_Witness ==
    /\ scope = "exited"
    /\ body_raised
    /\ n_attempts = 2
    /\ last_outcome = "transport_exc"
    /\ session.closes = 1
    /\ open_handles = 0

\* C20: once close() has been called, further close() calls change nothing:
\* the session is as after the first call and its transport has been
\* released once.
C20_CloseIdempotent ==
    /\ [](n_close >= 1 => (session.closes = 1 /\ open_handles = 0))
    /\ [][(n_close >= 1 /\ n_close' = n_close + 1) => UNCHANGED <<cfgVars, sessVars>>]_vars

\* C21: whenever the exported state of a session has been imported into a
\* fresh session, the import raised nothing and the importing session has
\* the profile name, the engine, the proxy configuration and the headers
\* the exporting session had when it exported.
C21_ExportImportRoundTrip ==
    imp.done
        => /\ imp.exc = ""
           /\ imp.session.profile_name = imp.state.profile_name
           /\ imp.session.engine = imp.state.engine
           /\ imp.session.proxies = imp.state.proxies
           /\ imp.session.headers = imp.state.headers

\* C22: an operation on one session (construction, sync_fingerprint, the
\* profile rotation of a request, import_session) leaves what the other
\* session shows (headers, proxies, active profile, cursors) as it was.
C22_NoSharedState ==
    [][ \A x \in PeerNames :
          (peer_op'.actor = x /\ peer_op'.n # peer_op.n /\ peers[Other(x)].built)
              => PeerView(Other(x))' = PeerView(Other(x)) ]_vars

\* C23: one primary response starts at most 20 asset threads; while threads
\* are still running the retry loop can take its next step (request() waits
\* for none of them); and the step in which a thread fails changes neither
\* the position of request() nor what it returns or raises.
C23_AssetsDetached ==
    /\ [](threads.last <= ASSET_CAP)
    /\ [](pc = "loop" => ENABLED Attempt)
    /\ [][ threads'.failed # threads.failed
             => UNCHANGED <<pc, attempt, result, ret, err>> ]_vars

\* request() has returned the primary response of a page that names more
\* than 20 assets while threads were still running, and one of them failed
\* afterwards
C23_Witness ==
    /\ Finished
    /\ result = "returned"
    /\ ret = last_resp
    /\ ret.present
    /\ threads.last = ASSET_CAP
    /\ threads.running > 0
    /\ threads.failed > 0
    /\ threads.ended = 0

RECURSIVE Doubled(_, _)
\* base doubled k - 1 times
Doubled(base, k) == IF k = 1 THEN base ELSE 2 * Doubled(base, k - 1)

\* C24: the k-th sleep of a request() lasts base * 2^(k-1) + j with
\* 0 <= j <= jitter; between two attempts there is exactly one sleep, so a
\* request() about to make an attempt has slept once per attempt made, and
\* a request() that has ended has slept once less than it made attempts.
C24_Backoff ==
    /\ \A k \in 1..Len(slept) :
          /\ Doubled(retry_backoff_base, k) <= slept[k]
          /\ slept[k] <= Doubled(retry_backoff_base, k) + retry_jitter
    /\ pc = "loop" => Len(slept) = n_attempts
    /\ Finished => Len(slept) = n_attempts - 1

\* a request() ended after three retries whose sleeps had a random part
C24_Witness ==
    /\ Finished
    /\ n_attempts = 4
    /\ retry_backoff_base = 10
    /\ slept[1] = 10
    /\ slept[2] = 23
    /\ slept[3] = 41


\* the i-th element of seq is the Occ(seq, i)-th copy of its value
Occ(seq, i) == Cardinality({ j \in 1..i : seq[j] = seq[i] })

\* where the k-th copy of v stands in base
PosIn(base, v, k) == CHOOSE j \in 1..Len(base) : base[j] = v /\ Occ(base, j) = k

\* the same ids, each as often
SameBag(a, b) ==
    /\ Len(a) = Len(b)
    /\ \A i \in 1..Len(a) :
         Cardinality({ j \in 1..Len(a) : a[j] = a[i] })
           = Cardinality({ j \in 1..Len(b) : b[j] = a[i] })

\* the least number of adjacent swaps that turn base into out: the pairs
\* of elements that stand in the other order
SwapDistance(base, out) ==
    LET P == [i \in 1..Len(out) |-> PosIn(base, out[i], Occ(out, i))]
    IN  Cardinality({ ij \in (1..Len(out)) \X (1..Len(out)) :
                        ij[1] < ij[2] /\ P[ij[1]] > P[ij[2]] })

IsRandomizerCall == fcall.fn \in {"generate_variant", "randomize_profile"}

\* C25: for a profile with extension variance N > 0 the variant of either
\* randomizer has the extension ids of the input, each as often, in an
\* order at most N adjacent swaps away, and the input profile is as it was
C25_ExtensionVariants ==
    ( /\ IsRandomizerCall
      /\ "extensions" \in fcall.input.keys
      /\ RandomizationOf(fcall.input).extension_variance > 0 )
    => /\ SameBag(fcall.input.extensions, fcall.variant.extensions)
       /\ SwapDistance(fcall.input.extensions, fcall.variant.extensions)
            <= RandomizationOf(fcall.input).extension_variance
       /\ fcall.after = fcall.input

\* randomize_profile moved two extensions of the catalog's Firefox profile
C25_Witness ==
    /\ fcall.fn = "randomize_profile"
    /\ fcall.input = CatalogProfile("firefox_120_win11")
    /\ SwapDistance(fcall.input.extensions, fcall.variant.extensions) = 2

\* the ciphers of a profile: its ciphers entry, tls12_ciphers for an entry
\* of the legacy table
CiphersOf(profile) ==
    IF "ciphers" \in profile.keys THEN profile.ciphers ELSE profile.tls12_ciphers

\* str lists exactly the names of list, in its order, ":" between them
ListsInOrder(str, list) ==
    /\ Len(str) = 2 * Len(list) - 1
    /\ \A i \in 1..Len(list) : str[2 * i - 1] = list[i]
    /\ \A i \in 1..(Len(list) - 1) : str[2 * i] = ":"

\* C26: without randomize_ciphers the cipher string lists the ciphers of
\* the profile in the profile's order; the variant of a randomizer has the
\* cipher list of its base, or, only under a policy with cipher_shuffle,
\* a permutation of it
C26_CipherOrder ==
    /\ (fcall.fn = "_cipher_list" /\ ~fcall.randomize /\ ~fcall.out.none)
         => ListsInOrder(fcall.out.str, CiphersOf(fcall.input))
    /\ (fcall.fn = "_cipher_list" /\ ~fcall.randomize /\ fcall.out.none)
         => CiphersOf(fcall.input) = <<>>
    /\ IsRandomizerCall
         => IF RandomizationOf(fcall.input).cipher_shuffle
            THEN SameBag(fcall.input.ciphers, fcall.variant.ciphers)
            ELSE fcall.variant.ciphers = fcall.input.ciphers

\* the 17 ciphers of the catalog's Firefox profile were joined
C26_Witness ==
    /\ fcall.fn = "_cipher_list"
    /\ ~fcall.randomize
    /\ fcall.input = _get_profile("firefox_120_win11")
    /\ Len(fcall.out.str) = 2 * Len(FIREFOX_ciphers) - 1
    /\ fcall.out.str[1] = FIREFOX_ciphers[1]

\* a variant under cipher_shuffle with its ciphers in another order
C26_ShuffledSeen ==
    /\ fcall.fn = "generate_variant"
    /\ RandomizationOf(fcall.input).cipher_shuffle
    /\ fcall.variant.ciphers # fcall.input.ciphers

\* the tokens that carry the version of the browser itself
IsBrowserVersion(tok) == tok.pre \in {"Chrome/", "Firefox/", "Edg/", "Version/"}

\* tok became new by a change of numeric components after the first only
TrailingBump(tok, new) ==
    /\ new.pre = tok.pre
    /\ new.post = tok.post
    /\ Len(new.nums) = Len(tok.nums)
    /\ Len(tok.nums) >= 1 => new.nums[1] = tok.nums[1]

\* C27: the User-Agent of a variant differs from the base's at most in
\* numeric components after the first of the browser's own version token,
\* no component is negative, and every other token is as it was
C27_VersionBump ==
    IsRandomizerCall
    => LET ua  == fcall.input.user_agent
           new == fcall.variant.user_agent
       IN  /\ Len(new) = Len(ua)
           /\ \A i \in 1..Len(ua) :
                /\ IF IsBrowserVersion(ua[i]) THEN TrailingBump(ua[i], new[i])
                                             ELSE new[i] = ua[i]
                /\ \A k \in 1..Len(new[i].nums) : new[i].nums[k] >= 0

\* C28: the profile _get_profile gives for a name of the gallery or of the
\* legacy table has a non-empty cipher list, a non-empty extension list,
\* and a header_case of lower, title or as-is
C28_CatalogProfiles ==
    (fcall.fn = "_get_profile" /\ fcall.input \in FINGERPRINT_GALLERY \cup PROFILES)
    => /\ "ciphers" \in fcall.out.keys
       /\ fcall.out.ciphers # <<>>
       /\ fcall.out.tls12_ciphers # <<>>
       /\ "extensions" \in fcall.out.keys
       /\ fcall.out.extensions # <<>>
       /\ "header_case" \in fcall.out.keys
       /\ fcall.out.header_case \in {"lower", "title", "as-is"}

\* a name of the legacy table was resolved
C28_Witness ==
    /\ fcall.fn = "_get_profile"
    /\ fcall.input = "mobile_safari_17"
    /\ fcall.input \in PROFILES
    /\ fcall.out.header_case = "title"
    /\ Len(fcall.out.extensions) > 0

\* request() has just been entered
RequestStarts == pc = "loop" /\ n_attempts = 0

\* C29: the cookies the session held when an earlier request ended are
\* held by the session when a later request starts
C29_CookiesKept == RequestStarts => held \subseteq session.jar

\* the form of a page that a selector in 0..n-1 names
SelectedForm == fcall.found[fcall.form_selector + 1]

\* C30: for a fetched page submit_form raises ValueError exactly when the
\* page has no form or the selector is >= the number of its forms; with a
\* form and a selector in range it submits that form's inputs updated with
\* the caller's data, by POST if the form's method is POST, else by GET
C30_SubmitForm ==
    (fcall.fn = "submit_form" /\ fcall.fetched)
    => /\ fcall.outcome \in {"ValueError_no_forms", "ValueError_range"}
            <=> (fcall.found = <<>> \/ fcall.form_selector >= Len(fcall.found))
       /\ (fcall.form_selector >= 0 /\ fcall.form_selector < Len(fcall.found))
            => /\ fcall.outcome = "submitted"
               /\ \A i \in 1..Len(fcall.data) :
                    /\ HasKey(fcall.payload, fcall.data[i].k)
                    /\ DictGet(fcall.payload, fcall.data[i].k) = fcall.data[i].v
               /\ \A i \in 1..Len(SelectedForm.inputs) :
                    /\ HasKey(fcall.payload, SelectedForm.inputs[i].k)
                    /\ ~HasKey(fcall.data, SelectedForm.inputs[i].k)
                         => DictGet(fcall.payload, SelectedForm.inputs[i].k)
                              = SelectedForm.inputs[i].v
               /\ fcall.method = IF Upper(SelectedForm.method) = POST_text
                                 THEN "POST" ELSE "GET"
               /\ pc = "loop" \/ n_requests >= 2


\* the header named k of the session is v
HeaderIs(k, v) == HasKey(headers, k) /\ DictGet(headers, k) = v

\* the User-Agent and the client-hint headers of the session are those of
\* the profile named n
HeadersOfProfile(n) ==
    LET p == _get_profile(n)
    IN  /\ HeaderIs(K_User_Agent, p.user_agent)
        /\ IF "sec_ch_ua" \in p.keys
           THEN HeaderIs(K_Sec_CH_UA, p.sec_ch_ua)
           ELSE ~HasKey(headers, K_Sec_CH_UA)
        /\ IF "sec_ch_ua_platform" \in p.keys
           THEN HeaderIs(K_Sec_CH_UA_Platform, p.sec_ch_ua_platform)
           ELSE ~HasKey(headers, K_Sec_CH_UA_Platform)

\* C31: the caller having supplied no header, once the active profile has
\* changed and the transport has been re-initialised for it, the session's
\* User-Agent and Sec-CH-UA headers are those of the now-active profile
C31_HeadersFollowProfile ==
    (profile_name # pre.profile_name /\ sess_profile = profile_name)
        => HeadersOfProfile(profile_name)


\* ------------------------------------------------------------------------
\* SpecImport: a session makes requests; the state it exports is then
\* imported into a second session, constructed with a proxy pool and a
\* rotation list of its own, and the requests go on on the second session.
\* From the import on the variables hold the second session.
\* ------------------------------------------------------------------------
InitImport ==
    /\ Init
    /\ on_block \in {"proxy", "both"}
    /\ max_retries \in 1..2
    /\ block_detector = "none"
    /\ proxies = EmptyDict

\* b = TLSChameleon(engine=.., proxies_pool=pool, rotate_profiles=rl, ..);
\* b.import_session(a.export_session())
ImportIntoFresh ==
    /\ pc = "idle"
    /\ n_requests >= 1
    /\ ~imp.done
    /\ \E n \in 0..MaxPoolLen, rl \in RotationLists :
         \E fresh \in { __init__([DefaultArgs EXCEPT
                                     !.engine = Given(engine),
                                     !.proxies_pool = Given(Pool(n)),
                                     !.rotate_profiles = Given(rl),
                                     !.on_block = Given(on_block),
                                     !.max_retries = Given(max_retries),
                                     !.retry_jitter = Given(retry_jitter)]) } :
           \E r \in { import_session(fresh, export_session(Self)) } :
             /\ fresh.exc = ""
             /\ proxies_pool' = fresh.proxies_pool
             /\ rotate_profiles' = fresh.rotate_profiles
             /\ engine' = r.engine
             /\ profile_name' = r.profile_name
             /\ rotate_index' = r.rotate_index
             /\ proxy_index' = r.proxy_index
             /\ proxies' = r.proxies
             /\ http2' = r.http2
             /\ sess_profile' = r.sess_profile
             /\ sess_proxies' = r.sess_proxies
             /\ session' = r.session
             /\ open_handles' = r.open_handles
             /\ headers' = r.headers
             /\ imp' = [done |-> TRUE, fresh_engine |-> fresh.engine, exc |-> r.exc,
                        state |-> export_session(Self),
                        session |-> [profile_name |-> r.profile_name, engine |-> r.engine,
                                     proxies |-> r.proxies, headers |-> r.headers]]
    \* no request has been made on the second session
    /\ n_requests' = 0
    /\ UNCHANGED <<on_block, max_retries, block_detector>>
    /\ UNCHANGED <<reqVars, n_attempts, last_outcome, last_resp, all_blocked, sent_proxy,
                   pre, rot_from, names, rot_proxy, waf_obs, slept, held, threads>>
    /\ UNCHANGED <<ibVars, rotVars, optVars, envVars, ctorVars, mhVars, wfVars, scopeVars,
                   peerVars, callVars, fnVars>>

NextImport ==
    \/ StartRequest
    \/ Attempt
    \/ ImportIntoFresh

SpecImport == InitImport /\ [][NextImport]_vars

\* C32: the rotation cursor is an index of the rotation list, or -1, and -1
\* when there is no list; the proxy cursor is an index of the proxy pool, or
\* -1, and -1 when there is no pool; reading the current proxy has not
\* failed with an index out of range
C32_CursorsValid ==
    /\ rotate_index \in -1..(Len(rotate_profiles) - 1)
    /\ proxy_index \in -1..(Len(proxies_pool) - 1)
    /\ err # "IndexError"


\* C33: whenever the retry loop is about to send an attempt, the transport
\* is the one initialised for the profile that is active then: a change of
\* the active profile is followed by a re-initialisation before the next
\* attempt
C33_TransportFollowsProfile ==
    pc = "loop" => sess_profile = profile_name

\* a retry was sent after a block-driven rotation had changed the profile
C33_Witness ==
    /\ Finished /\ result = "returned"
    /\ on_block = "rotate" /\ n_attempts >= 2
    /\ last_resp.waf = "none"
    /\ profile_name # pre.profile_name
    /\ sess_profile = profile_name


\* ------------------------------------------------------------------------
\* SpecHeaders: request() with the headers it hands to the transport.
\* fcall.req_headers is the local req_headers of the call in progress.
\* ------------------------------------------------------------------------
\* header_order of the Chrome and Edge entries of the catalog, and of its
\* Firefox and Safari entries, without the names the session never holds
CHROME_header_order ==
    << Lower(K_Sec_CH_UA), Lower(K_Sec_CH_UA_Mobile), Lower(K_Sec_CH_UA_Platform),
       H_user_agent >>

OTHER_header_order == << K_User_Agent >>

\* the profile dict of name n as _morph_headers reads it
MorphProfile(n) ==
    LET p == _get_profile(n)
    IN  [ empty |-> FALSE,
          header_case |-> p.header_case,
          header_order |-> IF "sec_ch_ua" \in p.keys THEN CHROME_header_order
                           ELSE OTHER_header_order ]

InitHeaders ==
    /\ Init
    /\ on_block \in {"rotate", "both"}
    /\ max_retries \in 1..2
    /\ block_detector = "none"

\* lines 371-390: request() is entered without headers=; req_headers is
\* built from the session headers for the profile of that moment
EnterRequest ==
    /\ pc = "idle"
    /\ n_requests < RequestLimit
    /\ BeginRequest
    /\ fcall' = [fn |-> "request",
                 req_headers |-> _morph_headers(Self, <<>>, MorphProfile(profile_name))]
    /\ UNCHANGED <<cfgVars, sessVars, ibVars, rotVars>>
    /\ UNCHANGED <<optVars, envVars, ctorVars, mhVars, wfVars, scopeVars,
                   exportVars, peerVars, callVars>>

NextHeaders ==
    \/ EnterRequest
    \/ Attempt

SpecHeaders == InitHeaders /\ [][NextHeaders]_vars

\* the place of header name k in an order list, after the list if absent
OrderPlace(k, order) ==
    IF \E i \in 1..Len(order) : Lower(order[i]) = Lower(k)
    THEN CHOOSE i \in 1..Len(order) : Lower(order[i]) = Lower(k)
    ELSE Len(order) + 1

\* header map h is cased and ordered as the profile named n asks, and its
\* User-Agent is that profile's
FollowsProfile(h, n) ==
    LET p == MorphProfile(n)
    IN  /\ \A i \in 1..Len(h) : h[i].k = case_key(p.header_case, h[i].k)
        /\ \A i, j \in 1..Len(h) :
             i < j => OrderPlace(h[i].k, p.header_order) <= OrderPlace(h[j].k, p.header_order)
        /\ \E i \in 1..Len(h) :
             /\ Lower(h[i].k) = H_user_agent
             /\ h[i].v = _get_profile(n).user_agent

\* C34: the headers an attempt is about to be sent with are cased and
\* ordered by the profile active for that attempt and carry its User-Agent
C34_AttemptHeadersFollowProfile ==
    (pc = "loop" /\ fcall.fn = "request")
        => FollowsProfile(fcall.req_headers, profile_name)


\* ------------------------------------------------------------------------
\* SpecListed: request() on a session constructed as examples/
\* cloudflare_rotate.py constructs it: fingerprint= names an entry of the
\* rotation list it passes
\* ------------------------------------------------------------------------
\* --rotate-profiles of the example, a two-entry list, and a list with a
\* name the catalog does not have
ListedRotations ==
    { <<"chrome_124", "chrome_120", "mobile_safari_17">>,
      <<"firefox_120", "chrome_124">>,
      <<"chrome_124", "no_such_profile">> }

InitListed ==
    /\ engine \in Engines
    /\ on_block \in {"rotate", "both"}
    /\ max_retries \in 1..MaxRetriesBound
    /\ rotate_profiles \in ListedRotations
    /\ \E a \in ProxyArgs :
          /\ a.proxies = EmptyDict
          /\ proxies_pool = a.pool
          /\ proxies = a.proxies
    /\ block_detector = "none"
    \* fingerprint=: an entry of the list (lines 153-162)
    /\ \E i \in 1..Len(rotate_profiles) :
          profile_name = IF _profile_exists(rotate_profiles[i]) THEN rotate_profiles[i]
                         ELSE DEFAULT_PROFILE
    /\ rotate_index = -1
    /\ proxy_index = -1
    /\ http2 = "None"
    /\ sess_profile = profile_name
    /\ sess_proxies = proxies
    /\ session = NewSession
    /\ open_handles = 1
    /\ SteadyOptionState
    /\ BothImportable
    /\ IdleRequestState
    /\ IdleAuxState
    /\ IdleBlockState
    /\ IdleRotState
    /\ IdleCtorState
    /\ IdleMorphState
    /\ IdleWafState
    /\ IdleScopeState

SpecListed == InitListed /\ [][Next]_vars

\* C35: with a rotation list of two or more different names, the profile
\* after a block-driven rotation differs from the profile before it
C35_RotationChangesProfile ==
    (rot_from # "" /\ Len(rotate_profiles) >= 2) => profile_name # rot_from


\* C36: the active profile name is a name of the catalog, and the profile
\* data cached by the last initialisation of the transport (the lookup of
\* the name it was initialised for) is the catalog's entry of that name
C36_ProfileInCatalog ==
    /\ _profile_exists(profile_name)
    /\ _get_profile(sess_profile) = _get_profile(profile_name)


\* ------------------------------------------------------------------------
\* SpecHandles: the transport handles of one session over its life:
\* requests with rotations and WAF adaptation, sync_fingerprint, the import
\* of a state the session exported, and close()
\* ------------------------------------------------------------------------
InitHandles ==
    /\ Init
    /\ on_block \in {"rotate", "both"}
    /\ max_retries \in 0..1
    /\ block_detector = "none"

\* self.import_session(self.export_session()): a saved state is restored
ImportOwnState ==
    /\ pc = "idle"
    /\ n_close = 0
    /\ \E r \in { import_session(Self, export_session(Self)) } :
         StoreSelf([r EXCEPT !.exc = ""])
    /\ UNCHANGED <<n_requests, n_attempts, last_outcome, last_resp, all_blocked, sent_proxy,
                   pre, rot_proxy, waf_obs, slept, held, threads>>
    /\ UNCHANGED <<cfgVars, reqVars, ibVars, rotVars, extVars>>

\* sync_fingerprint on a session that has not been closed
SyncBeforeClose == n_close = 0 /\ SyncFingerprintCall

NextHandles ==
    \/ StartRequest
    \/ Attempt
    \/ SyncBeforeClose
    \/ ImportOwnState
    \/ CloseCall

SpecHandles == InitHandles /\ [][NextHandles]_vars

\* C37: the session has at most one open transport handle, and the only
\* open handle is the transport it holds (none is left behind by a
\* re-initialisation); a close() leaves no handle open
C37_OneHandle ==
    /\ [](open_handles \in 0..1)
    /\ [](open_handles = IF session.live /\ session.closes = 0 THEN 1 ELSE 0)
    /\ [][n_close' = n_close + 1 => open_handles' = 0]_vars

\* close() after the transport had been re-initialised by a rotation
C37_Witness ==
    /\ n_close >= 1
    /\ n_attempts >= 2
    /\ profile_name # pre.profile_name
    /\ open_handles = 0
    /\ session.closes = 1


\* C38: when request() has returned a response that carries the Cloudflare
\* signature, the active profile is a Chrome-family one and the session's
\* http2 setting is on, whatever the policy, the rotation list and the
\* number of retries made before
C38_ReturnedCloudflare ==
    (Finished /\ result = "returned" /\ ret.present /\ ret.waf = "cloudflare")
        => (ContainsChrome(profile_name) /\ http2 = "True")

\* a Cloudflare response returned by a retry, a block-driven rotation having
\* made a Firefox profile the active one before it
C38_Witness ==
    /\ Finished /\ result = "returned" /\ ret.present /\ ret.waf = "cloudflare"
    /\ on_block \in {"rotate", "both"}
    /\ n_attempts >= 2
    /\ waf_obs.before = "firefox_120"
    /\ ContainsChrome(profile_name)
    /\ http2 = "True"


\* C39: in a request() called with mimic_assets=True every attempt whose
\* response has a 2xx status dispatches the asset prefetch, retries
\* included, and no other attempt does
C39_PrefetchPerAttempt ==
    [][ (mimic_arg /\ n_attempts' = n_attempts + 1)
          => (threads'.calls = threads.calls + 1
                <=> (last_outcome' = "resp"
                       /\ 200 <= last_resp'.status /\ last_resp'.status < 300)) ]_vars


\* ------------------------------------------------------------------------
\* sync_fingerprint(ja3=, user_agent=) and what get_fingerprint_info then
\* reports.  The cached profile data (self._current_profile_data) is a
\* function of the profile the transport was last initialised for: every
\* _init_session replaces it by a fresh copy of the catalog entry
\* ------------------------------------------------------------------------
CHROME_ja3 ==
    "771,4865-4866-4867-49195-49199-49196-49200-52393-52392-49171-49172-156-157-47-53,0-23-65281-10-11-35-16-5-13-18-51-45-43-27-17513-21,29-23-24,0"

FIREFOX_ja3 ==
    "771,4865-4867-4866-49195-49199-52393-52392-49196-49200-49162-49161-49171-49172-156-157-47-53,0-23-65281-10-11-35-16-5-34-51-43-13-45-28-21,29-23-24-25-256-257,0"

SAFARI_ja3 ==
    "771,4865-4866-4867-49196-49195-52393-49200-49199-52392-49188-49187-49162-49161-49172-49171-157-156-53-47-255,0-23-65281-10-11-16-5-13-18-51-45-43-27-21,29-23-24-25,0"

\* profile.get("ja3") of a catalog entry: the gallery gives every entry the
\* string of its browser family together with that family's ciphers; a
\* legacy entry has no "ja3" key ("" for None)
ProfileJa3(profile) ==
    IF profile.ciphers = CHROME_ciphers THEN CHROME_ja3
    ELSE IF profile.ciphers = FIREFOX_ciphers THEN FIREFOX_ja3
    ELSE IF profile.ciphers = SAFARI_ciphers THEN SAFARI_ja3
    ELSE ""

\* the ja3= argument: None (""), or the string of a Firefox build
Ja3Args == { "", FIREFOX_ja3 }

\* self._current_profile_data["ja3"] through sync_fingerprint(ja3=ja3):
\* before the call, after the assignment of lines 365-366, and after the
\* _init_session() of line 369, whose line 227 caches a fresh deep copy of
\* the catalog entry of self.profile_name
sync_fingerprint_ja3(s, ja3) ==
    LET before == ProfileJa3(_get_profile(s.sess_profile))
        stored == IF ja3 # "" THEN ja3 ELSE before
        cached == ProfileJa3(_get_profile(s.profile_name))
    IN  [ before |-> before, stored |-> stored, cached |-> cached ]

InitSync ==
    /\ Init
    /\ on_block \in {"rotate", "both"}
    /\ max_retries \in 0..1
    /\ block_detector = "none"

\* self.sync_fingerprint(ja3=ja3, user_agent=ua) between two requests; the
\* call record keeps the arguments, the profile of the moment, and the ja3
\* that get_fingerprint_info() reports when the call has returned
SyncBoth ==
    /\ pc = "idle"
    /\ \E ja3 \in Ja3Args, ua \in SyncAgents :
          /\ StoreSelf(sync_fingerprint(Self, ua))
          /\ fcall' = [ fn |-> "sync_fingerprint", ja3 |-> ja3, user_agent |-> ua,
                        profile_name |-> profile_name,
                        info_ja3 |-> sync_fingerprint_ja3(Self, ja3).cached ]
    /\ UNCHANGED <<n_requests, n_attempts, last_outcome, last_resp, all_blocked, sent_proxy,
                   pre, rot_proxy, waf_obs, slept, held, threads>>
    /\ UNCHANGED <<cfgVars, reqVars, ibVars, rotVars>>
    /\ UNCHANGED <<optVars, envVars, ctorVars, mhVars, wfVars, scopeVars,
                   exportVars, peerVars, callVars>>

NextSync ==
    \/ StartRequest
    \/ Attempt
    \/ SyncBoth

SpecSync == InitSync /\ [][NextSync]_vars

\* C40: after sync_fingerprint(ja3 = X, user_agent = U), for as long as
\* the active profile is the one of the call, the User-Agent header of
\* the session is U and get_fingerprint_info() reports X as ja3
C40_SyncStored ==
    ( /\ fcall.fn = "sync_fingerprint"
      /\ fcall.ja3 # ""
      /\ fcall.user_agent # ""
      /\ profile_name = fcall.profile_name )
        => /\ HeaderIs(K_User_Agent, fcall.user_agent)
           /\ fcall.info_ja3 = fcall.ja3

====
